---- MODULE Spec2Model ----
(***************************************************************************)
(* nginx-config-builder: the block tree (events, http, server, location,   *)
(* upstream, map, if), the two document roots (NginxConfig, SiteConfig)    *)
(* and their build() serialisation.                                        *)
(*                                                                         *)
(* A text is a sequence of characters.  A character is a one-element       *)
(* string (" ", "\n", ";", "{", "}", "(", ")", "=") or a word such as      *)
(* "server" that stands for a run of characters holding no white space, no *)
(* ';' and no brace.  endsWith, trim, join and string concatenation are    *)
(* computed on these sequences.                                            *)
(***************************************************************************)
EXTENDS Integers, Sequences, FiniteSets, TLC

VARIABLES
    userDirective,            \* NginxConfig.userDirective: <<>> (undefined) or <<text>>
    workerProcessesDirective, \* NginxConfig.workerProcessesDirective
    pidDirective,             \* NginxConfig.pidDirective
    eventsBlock,              \* NginxConfig.eventsBlock: <<>> or <<EventsBlock>>
    httpBlock,                \* NginxConfig.httpBlock: <<>> or <<HttpBlock>>
    httpBlockB,               \* the HttpBlock of a second, independent NginxConfig
    siteDirectives,           \* SiteConfig.directives
    siteServers,              \* SiteConfig.servers
    upstream,                 \* a free-standing UpstreamBlock
    root,                     \* which document root the program constructed
    out,                      \* <<text>> when the last call was a build(), else <<>>
    heap,                     \* the objects by reference: heap[r] is the object r
    ret                       \* the reference the last call on the heap returned

vars == <<userDirective, workerProcessesDirective, pidDirective, eventsBlock,
          httpBlock, httpBlockB, siteDirectives, siteServers, upstream,
          root, out, heap, ret>>

nginxVars == <<userDirective, workerProcessesDirective, pidDirective,
               eventsBlock, httpBlock>>
siteVars == <<siteDirectives, siteServers>>
heapVars == <<heap, ret>>
otherVars == <<httpBlockB, upstream, root, heapVars>>

----------------------------------------------------------------------------
(* Bounds of the model *)

MaxDirs == 1        \* directives added to one block of the document tree
MaxUpstreams == 2   \* upstream blocks in the http block
MaxMaps == 1        \* map blocks in the http block
MaxItems == 2       \* pairs in one map block
MaxServers == 1     \* server blocks in the http block
MaxLocations == 1   \* location blocks in one server block
MaxIfs == 1         \* if blocks in one location block
MaxUpDirs == 3      \* directives of the free-standing upstream block
MaxTypedKeys == 2   \* keys of one typed-directives record passed in

----------------------------------------------------------------------------
(* Text primitives: the JavaScript string operations the code uses *)

SP == " "
NL == "\n"
SEMI == ";"

Indent4 == <<SP, SP, SP, SP>>
BlankLine == <<NL, NL>>

\* String.prototype.endsWith for a one-character suffix
endsWith(s, c) == Len(s) > 0 /\ s[Len(s)] = c

IsSpace(c) == c = SP \/ c = NL

RECURSIVE trimStart(_)
trimStart(s) ==
    IF s = <<>> THEN <<>>
    ELSE IF IsSpace(Head(s)) THEN trimStart(Tail(s)) ELSE s

RECURSIVE trimEnd(_)
trimEnd(s) ==
    IF s = <<>> THEN <<>>
    ELSE IF IsSpace(s[Len(s)]) THEN trimEnd(SubSeq(s, 1, Len(s) - 1)) ELSE s

\* String.prototype.trim
trim(s) == trimEnd(trimStart(s))

\* Array.prototype.join
RECURSIVE join(_, _)
join(parts, sep) ==
    IF parts = <<>> THEN <<>>
    ELSE IF Len(parts) = 1 THEN parts[1]
    ELSE parts[1] \o sep \o join(Tail(parts), sep)

\* Array.prototype.filter with a truthiness test on trim() or on the part
filterTrim(parts) == SelectSeq(parts, LAMBDA p : trim(p) # <<>>)
filterBoolean(parts) == SelectSeq(parts, LAMBDA p : p # <<>>)

\* Array.prototype.map((d) => indent + d)
prefixEach(lines, indent) == [i \in 1..Len(lines) |-> indent \o lines[i]]

----------------------------------------------------------------------------
(* Block: the directive store *)

\* mutant: the separator is appended without the endsWith test
addDirective_always(directives, directive) ==
    Append(directives, directive \o <<SEMI>>)

\* mutant: a text that is empty or only a separator is rejected
addDirective_rejecting(directives, directive) ==
    IF directive = <<>> \/ directive = <<SEMI>> THEN directives
    ELSE Append(directives,
                IF ~endsWith(directive, SEMI) THEN directive \o <<SEMI>>
                ELSE directive)

\* for comparison: the text is put in front of the stored ones
addDirective_inFront(directives, directive) ==
    <<IF ~endsWith(directive, SEMI) THEN directive \o <<SEMI>>
      ELSE directive>> \o directives

\* Block.addDirective: the new contents of this.directives
addDirective(directives, directive) ==
    Append(directives,
           IF ~endsWith(directive, SEMI) THEN directive \o <<SEMI>>
           ELSE directive)

\* Block.formatDirectives
formatDirectives(directives, indent) ==
    join(prefixEach(directives, indent), <<NL>>)

----------------------------------------------------------------------------
(* Block constructors: the state of a block right after `new` *)

NewEventsBlock == [directives |-> <<>>]
NewIfBlock(condition) == [condition |-> condition, directives |-> <<>>]
NewLocationBlock(path, exact) ==
    [path |-> path, exact |-> exact, directives |-> <<>>, ifBlocks |-> <<>>]
NewServerBlock == [directives |-> <<>>, locations |-> <<>>]
NewUpstreamBlock(name) == [name |-> name, directives |-> <<>>]
NewMapBlock(variable, outputVar) ==
    [variable |-> variable, outputVar |-> outputVar,
     directives |-> <<>>, items |-> <<>>]
NewHttpBlock ==
    [directives |-> <<>>, typedDirectives |-> <<>>,
     servers |-> <<>>, upstreams |-> <<>>, maps |-> <<>>]

----------------------------------------------------------------------------
(* JavaScript values held in an options record *)

Undefined == [type |-> "undefined"]
Bool(b) == [type |-> "boolean", v |-> b]
Num(n) == [type |-> "number", v |-> n]
Str(s) == [type |-> "string", v |-> s]
Arr(a) == [type |-> "array", v |-> a]

\* ToBoolean: undefined, false, 0 and "" are falsy, an array is truthy
truthy(x) ==
    CASE x.type = "undefined" -> FALSE
      [] x.type = "boolean" -> x.v
      [] x.type = "number" -> x.v # 0
      [] x.type = "string" -> x.v # <<>>
      [] OTHER -> TRUE

\* `${n}` for a number
numText(n) == <<ToString(n)>>

\* mutant: a flag is rendered as on whatever its value
onOff_on(x) == <<"on">>

onOff(x) == IF truthy(x) THEN <<"on">> ELSE <<"off">>

(* An object is the sequence of its own properties, [key, value] pairs in   *)
(* insertion order, with no key twice.                                      *)
hasKey(obj, key) == \E i \in 1..Len(obj) : obj[i].key = key

\* obj.key (undefined when the property is missing)
get(obj, key) ==
    IF hasKey(obj, key)
    THEN obj[CHOOSE i \in 1..Len(obj) : obj[i].key = key].value
    ELSE Undefined

\* obj[key] = value: an existing property keeps its place, a new one is last
setProp(obj, key, value) ==
    IF hasKey(obj, key)
    THEN [i \in 1..Len(obj) |->
            IF obj[i].key = key THEN [key |-> key, value |-> value] ELSE obj[i]]
    ELSE Append(obj, [key |-> key, value |-> value])

\* Object.assign(target, source): every own property of source, in order
RECURSIVE objectAssign(_, _)
objectAssign(target, source) ==
    IF source = <<>> THEN target
    ELSE objectAssign(setProp(target, Head(source).key, Head(source).value),
                      Tail(source))

----------------------------------------------------------------------------
(* build(): the text of each block kind *)

\* EventsBlock.build
EventsBlock_build(e) ==
    <<"events", SP, "{", NL>> \o formatDirectives(e.directives, Indent4)
        \o <<NL, "}">>

\* IfBlock.build
IfBlock_build(b, indent) ==
    LET inner == join(prefixEach(b.directives, indent \o Indent4), <<NL>>)
    IN  indent \o <<"if", SP, "(">> \o b.condition \o <<")", SP, "{", NL>>
            \o inner \o <<NL>> \o indent \o <<"}">>

\* for comparison: a later pair with the same key replaces the earlier one
MapBlock_build_merged(m, indent) ==
    LET kept == SelectSeq([i \in 1..Len(m.items) |-> <<i, m.items[i]>>],
                          LAMBDA p : \A k \in (p[1] + 1)..Len(m.items) :
                                        m.items[k].key # p[2].key)
        items == join([i \in 1..Len(kept) |->
                          indent \o kept[i][2].key \o <<SP>>
                              \o kept[i][2].value \o <<SEMI>>], <<NL>>)
    IN  indent \o <<"map", SP>> \o m.variable \o <<SP>> \o m.outputVar
            \o <<SP, "{", NL>> \o items \o <<NL>> \o indent \o <<"}">>

\* MapBlock.build
MapBlock_build(m, indent) ==
    LET items == join([i \in 1..Len(m.items) |->
                          indent \o m.items[i].key \o <<SP>>
                              \o m.items[i].value \o <<SEMI>>], <<NL>>)
    IN  indent \o <<"map", SP>> \o m.variable \o <<SP>> \o m.outputVar
            \o <<SP, "{", NL>> \o items \o <<NL>> \o indent \o <<"}">>

\* UpstreamBlock.build
UpstreamBlock_build(u, indent) ==
    LET blockIndent == indent \o Indent4
        directives == formatDirectives(u.directives, blockIndent)
    IN  indent \o <<"upstream", SP>> \o u.name \o <<SP, "{", NL>>
            \o directives \o <<NL>> \o indent \o <<"}">>

\* mutant: the body of a location is indented like its opening line
LocationBlock_build_flat(loc, indent) ==
    LET prefix == IF loc.exact THEN <<"=">> ELSE <<>>
        directives == formatDirectives(loc.directives, indent)
        ifs == join([i \in 1..Len(loc.ifBlocks) |->
                        IfBlock_build(loc.ifBlocks[i], indent)], BlankLine)
    IN  indent \o <<"location", SP>> \o prefix \o <<SP>> \o loc.path
            \o <<SP, "{", NL>> \o directives
            \o (IF ifs # <<>> THEN BlankLine \o ifs ELSE <<>>)
            \o <<NL>> \o indent \o <<"}">>

\* for comparison: an exact-match location leaves out its if-blocks
LocationBlock_build_exactBare(loc, indent) ==
    LET blockIndent == indent \o Indent4
        prefix == IF loc.exact THEN <<"=">> ELSE <<>>
        directives == formatDirectives(loc.directives, blockIndent)
        ifs == IF loc.exact THEN <<>>
               ELSE join([i \in 1..Len(loc.ifBlocks) |->
                             IfBlock_build(loc.ifBlocks[i], blockIndent)],
                         BlankLine)
    IN  indent \o <<"location", SP>> \o prefix \o <<SP>> \o loc.path
            \o <<SP, "{", NL>> \o directives
            \o (IF ifs # <<>> THEN BlankLine \o ifs ELSE <<>>)
            \o <<NL>> \o indent \o <<"}">>

\* LocationBlock.build
LocationBlock_build(loc, indent) ==
    LET blockIndent == indent \o Indent4
        prefix == IF loc.exact THEN <<"=">> ELSE <<>>
        directives == formatDirectives(loc.directives, blockIndent)
        ifs == join([i \in 1..Len(loc.ifBlocks) |->
                        IfBlock_build(loc.ifBlocks[i], blockIndent)], BlankLine)
    IN  indent \o <<"location", SP>> \o prefix \o <<SP>> \o loc.path
            \o <<SP, "{", NL>> \o directives
            \o (IF ifs # <<>> THEN BlankLine \o ifs ELSE <<>>)
            \o <<NL>> \o indent \o <<"}">>

\* mutant: the locations of a server are built at the server's own indent
ServerBlock_build_flat(s, indent) ==
    LET blockIndent == indent \o Indent4
        directives == formatDirectives(s.directives, blockIndent)
        locations == join([i \in 1..Len(s.locations) |->
                              LocationBlock_build(s.locations[i], indent)],
                          BlankLine)
    IN  indent \o <<"server", SP, "{", NL>> \o directives
            \o (IF locations # <<>> THEN BlankLine \o locations ELSE <<>>)
            \o <<NL>> \o indent \o <<"}">>

\* ServerBlock.build
ServerBlock_build(s, indent) ==
    LET blockIndent == indent \o Indent4
        directives == formatDirectives(s.directives, blockIndent)
        locations == join([i \in 1..Len(s.locations) |->
                              LocationBlock_build(s.locations[i], blockIndent)],
                          BlankLine)
    IN  indent \o <<"server", SP, "{", NL>> \o directives
            \o (IF locations # <<>> THEN BlankLine \o locations ELSE <<>>)
            \o <<NL>> \o indent \o <<"}">>

\* mutant: the lines follow the record's own property order
buildTypedDirectives_insertionOrder(typedDirectives) ==
    LET line(p) ==
            CASE p.key \in {"sendfile", "gzip", "tcp_nopush", "tcp_nodelay"} ->
                     IF p.value # Undefined
                     THEN << <<p.key, SP>> \o onOff(p.value) \o <<SEMI>> >>
                     ELSE <<>>
              [] p.key = "keepalive_timeout" ->
                     IF p.value.type = "number"
                     THEN << <<p.key, SP>> \o numText(p.value.v) \o <<SEMI>> >>
                     ELSE <<>>
              [] p.key \in {"client_max_body_size", "default_type"} ->
                     IF truthy(p.value)
                     THEN << <<p.key, SP>> \o p.value.v \o <<SEMI>> >>
                     ELSE <<>>
              [] OTHER ->
                     IF truthy(p.value) /\ Len(p.value.v) > 0
                     THEN << <<p.key, SP>> \o join(p.value.v, <<SP>>)
                                \o <<SEMI>> >>
                     ELSE <<>>
        lines[n \in 0..Len(typedDirectives)] ==
            IF n = 0 THEN <<>> ELSE lines[n - 1] \o line(typedDirectives[n])
    IN  lines[Len(typedDirectives)]

\* HttpBlock.buildTypedDirectives: the lines, without indentation
buildTypedDirectives(typedDirectives) ==
    LET t(key) == get(typedDirectives, key)
    IN  (IF t("sendfile") # Undefined
         THEN << <<"sendfile", SP>> \o onOff(t("sendfile")) \o <<SEMI>> >>
         ELSE <<>>)
     \o (IF t("keepalive_timeout").type = "number"
         THEN << <<"keepalive_timeout", SP>>
                    \o numText(t("keepalive_timeout").v) \o <<SEMI>> >>
         ELSE <<>>)
     \o (IF truthy(t("client_max_body_size"))
         THEN << <<"client_max_body_size", SP>>
                    \o t("client_max_body_size").v \o <<SEMI>> >>
         ELSE <<>>)
     \o (IF truthy(t("default_type"))
         THEN << <<"default_type", SP>> \o t("default_type").v \o <<SEMI>> >>
         ELSE <<>>)
     \o (IF t("gzip") # Undefined
         THEN << <<"gzip", SP>> \o onOff(t("gzip")) \o <<SEMI>> >>
         ELSE <<>>)
     \o (IF truthy(t("gzip_types")) /\ Len(t("gzip_types").v) > 0
         THEN << <<"gzip_types", SP>> \o join(t("gzip_types").v, <<SP>>)
                    \o <<SEMI>> >>
         ELSE <<>>)
     \o (IF t("tcp_nopush") # Undefined
         THEN << <<"tcp_nopush", SP>> \o onOff(t("tcp_nopush")) \o <<SEMI>> >>
         ELSE <<>>)
     \o (IF t("tcp_nodelay") # Undefined
         THEN << <<"tcp_nodelay", SP>> \o onOff(t("tcp_nodelay")) \o <<SEMI>> >>
         ELSE <<>>)

\* mutant: the server group is emitted before the upstream and map groups
HttpBlock_build_serversFirst(h, indent) ==
    LET blockIndent == indent \o Indent4
        typed == join(prefixEach(buildTypedDirectives(h.typedDirectives),
                                 blockIndent), <<NL>>)
        blockDirectives == join(prefixEach(h.directives, blockIndent), <<NL>>)
        upstreams == join([i \in 1..Len(h.upstreams) |->
                              UpstreamBlock_build(h.upstreams[i], blockIndent)],
                          BlankLine)
        maps == join([i \in 1..Len(h.maps) |->
                         MapBlock_build(h.maps[i], blockIndent)], BlankLine)
        servers == join([i \in 1..Len(h.servers) |->
                            ServerBlock_build(h.servers[i], blockIndent)],
                        BlankLine)
        parts == join(filterTrim(<<typed, blockDirectives, servers, upstreams,
                                   maps>>), BlankLine)
    IN  IF trim(parts) # <<>>
        THEN indent \o <<"http", SP, "{", NL>> \o parts \o <<NL>> \o indent
                 \o <<"}">>
        ELSE indent \o <<"http", SP, "{", "}">>

\* HttpBlock.build
HttpBlock_build(h, indent) ==
    LET blockIndent == indent \o Indent4
        typed == join(prefixEach(buildTypedDirectives(h.typedDirectives),
                                 blockIndent), <<NL>>)
        blockDirectives == join(prefixEach(h.directives, blockIndent), <<NL>>)
        upstreams == join([i \in 1..Len(h.upstreams) |->
                              UpstreamBlock_build(h.upstreams[i], blockIndent)],
                          BlankLine)
        maps == join([i \in 1..Len(h.maps) |->
                         MapBlock_build(h.maps[i], blockIndent)], BlankLine)
        servers == join([i \in 1..Len(h.servers) |->
                            ServerBlock_build(h.servers[i], blockIndent)],
                        BlankLine)
        parts == join(filterTrim(<<typed, blockDirectives, upstreams, maps,
                                   servers>>), BlankLine)
    IN  IF trim(parts) # <<>>
        THEN indent \o <<"http", SP, "{", NL>> \o parts \o <<NL>> \o indent
                 \o <<"}">>
        ELSE indent \o <<"http", SP, "{", "}">>

\* mutant: the parts are joined and returned without the final newline
NginxConfig_build_noNewline(user, workerProcesses, pid, events, http) ==
    LET parts == user \o workerProcesses \o pid
                   \o (IF events # <<>> THEN <<EventsBlock_build(events[1])>>
                       ELSE <<>>)
                   \o (IF http # <<>> THEN <<HttpBlock_build(http[1], <<>>)>>
                       ELSE <<>>)
    IN  join(parts, BlankLine)

\* NginxConfig.build, as a function of the five fields
NginxConfig_build(user, workerProcesses, pid, events, http) ==
    LET parts == user \o workerProcesses \o pid
                   \o (IF events # <<>> THEN <<EventsBlock_build(events[1])>>
                       ELSE <<>>)
                   \o (IF http # <<>> THEN <<HttpBlock_build(http[1], <<>>)>>
                       ELSE <<>>)
    IN  join(parts, BlankLine) \o <<NL>>

\* SiteConfig.build, as a function of the two fields
SiteConfig_build(directives, servers) ==
    LET ds == join([i \in 1..Len(directives) |->
                       IF endsWith(directives[i], SEMI) THEN directives[i]
                       ELSE directives[i] \o <<SEMI>>], <<NL>>)
        ss == join([i \in 1..Len(servers) |->
                       ServerBlock_build(servers[i], <<>>)], <<NL>>)
        parts == join(filterBoolean(<<ds, ss>>), <<NL>>)
    IN  parts \o <<NL>>

----------------------------------------------------------------------------
(* Initial state: a document root right after its constructor ran without  *)
(* defaults, and the free-standing blocks right after `new`.               *)

Roots == {"NginxConfig", "SiteConfig"}

\* the root object by reference: its fields hold references, 0 for undefined
NewRoot(kind) ==
    IF kind = "NginxConfig"
    THEN [kind |-> kind, eventsBlock |-> 0, httpBlock |-> 0]
    ELSE [kind |-> kind, directives |-> <<>>, servers |-> <<>>]

Init ==
    /\ userDirective = <<>>
    /\ workerProcessesDirective = <<>>
    /\ pidDirective = <<>>
    /\ eventsBlock = <<>>
    /\ httpBlock = <<>>
    /\ httpBlockB = NewHttpBlock
    /\ siteDirectives = <<>>
    /\ siteServers = <<>>
    /\ upstream = NewUpstreamBlock(<<"backend">>)
    /\ root \in Roots
    /\ out = <<>>
    /\ heap = <<NewRoot(root)>>
    /\ ret = 0

IsNginx == root = "NginxConfig"
IsSite == root = "SiteConfig"

----------------------------------------------------------------------------
(* NginxConfig operations *)

\* for comparison: a second call adds a second user directive
User_adding(user) ==
    /\ IsNginx
    /\ userDirective' = userDirective \o << <<"user", SP>> \o user \o <<SEMI>> >>
    /\ out' = <<>>
    /\ UNCHANGED <<workerProcessesDirective, pidDirective, eventsBlock,
                   httpBlock, siteVars, otherVars>>

\* NginxConfig.user
User(user) ==
    /\ IsNginx
    /\ userDirective' = << <<"user", SP>> \o user \o <<SEMI>> >>
    /\ out' = <<>>
    /\ UNCHANGED <<workerProcessesDirective, pidDirective, eventsBlock,
                   httpBlock, siteVars, otherVars>>

\* NginxConfig.workerProcesses
WorkerProcesses(val) ==
    /\ IsNginx
    /\ workerProcessesDirective' = << <<"worker_processes", SP>> \o val \o <<SEMI>> >>
    /\ out' = <<>>
    /\ UNCHANGED <<userDirective, pidDirective, eventsBlock, httpBlock,
                   siteVars, otherVars>>

\* NginxConfig.pid
Pid(path) ==
    /\ IsNginx
    /\ pidDirective' = << <<"pid", SP>> \o path \o <<SEMI>> >>
    /\ out' = <<>>
    /\ UNCHANGED <<userDirective, workerProcessesDirective, eventsBlock,
                   httpBlock, siteVars, otherVars>>

\* mutant: every events() call installs a fresh block
Events_recreating ==
    /\ IsNginx
    /\ eventsBlock' = <<NewEventsBlock>>
    /\ out' = <<>>
    /\ UNCHANGED <<userDirective, workerProcessesDirective, pidDirective,
                   httpBlock, siteVars, otherVars>>

\* NginxConfig.events
Events ==
    /\ IsNginx
    /\ eventsBlock' = IF eventsBlock = <<>> THEN <<NewEventsBlock>>
                      ELSE eventsBlock
    /\ out' = <<>>
    /\ UNCHANGED <<userDirective, workerProcessesDirective, pidDirective,
                   httpBlock, siteVars, otherVars>>

\* NginxConfig.http
Http ==
    /\ IsNginx
    /\ httpBlock' = IF httpBlock = <<>> THEN <<NewHttpBlock>> ELSE httpBlock
    /\ out' = <<>>
    /\ UNCHANGED <<userDirective, workerProcessesDirective, pidDirective,
                   eventsBlock, siteVars, otherVars>>

\* mutant: build() reaches the blocks through events() and http(), which
\* create them
NginxConfigBuild_creating ==
    /\ IsNginx
    /\ eventsBlock' = IF eventsBlock = <<>> THEN <<NewEventsBlock>>
                      ELSE eventsBlock
    /\ httpBlock' = IF httpBlock = <<>> THEN <<NewHttpBlock>> ELSE httpBlock
    /\ out' = <<NginxConfig_build(userDirective, workerProcessesDirective,
                                  pidDirective, eventsBlock', httpBlock')>>
    /\ UNCHANGED <<userDirective, workerProcessesDirective, pidDirective,
                   siteVars, otherVars>>

\* NginxConfig.build
NginxConfigBuild ==
    /\ IsNginx
    /\ out' = <<NginxConfig_build(userDirective, workerProcessesDirective,
                                  pidDirective, eventsBlock, httpBlock)>>
    /\ UNCHANGED <<nginxVars, siteVars, otherVars>>

----------------------------------------------------------------------------
(* Operations on the events block and on the http block *)

httpFrame == <<userDirective, workerProcessesDirective, pidDirective,
               eventsBlock, siteVars, otherVars>>

\* Block.addDirective on the EventsBlock
EventsAddDirective(directive) ==
    /\ eventsBlock # <<>>
    /\ Len(eventsBlock[1].directives) < MaxDirs
    /\ eventsBlock' = <<[eventsBlock[1] EXCEPT
                            !.directives = addDirective(@, directive)]>>
    /\ out' = <<>>
    /\ UNCHANGED <<userDirective, workerProcessesDirective, pidDirective,
                   httpBlock, siteVars, otherVars>>

\* EventsBlock.workerConnections
WorkerConnections(num) ==
    EventsAddDirective(<<"worker_connections", SP>> \o numText(num))

\* Block.addDirective on the HttpBlock
HttpAddDirective(directive) ==
    /\ httpBlock # <<>>
    /\ Len(httpBlock[1].directives) < MaxDirs
    /\ httpBlock' = <<[httpBlock[1] EXCEPT
                          !.directives = addDirective(@, directive)]>>
    /\ out' = <<>>
    /\ UNCHANGED httpFrame

\* HttpBlock.applyTypedDirectives
ApplyTypedDirectives(d) ==
    /\ httpBlock # <<>>
    /\ httpBlock' = <<[httpBlock[1] EXCEPT
                          !.typedDirectives = objectAssign(@, d)]>>
    /\ out' = <<>>
    /\ UNCHANGED httpFrame

\* HttpBlock.addUpstream
AddUpstream(name) ==
    /\ httpBlock # <<>>
    /\ Len(httpBlock[1].upstreams) < MaxUpstreams
    /\ httpBlock' = <<[httpBlock[1] EXCEPT
                          !.upstreams = Append(@, NewUpstreamBlock(name))]>>
    /\ out' = <<>>
    /\ UNCHANGED httpFrame

\* HttpBlock.addMap
AddMap(variable, outputVar) ==
    /\ httpBlock # <<>>
    /\ Len(httpBlock[1].maps) < MaxMaps
    /\ httpBlock' = <<[httpBlock[1] EXCEPT
                          !.maps = Append(@, NewMapBlock(variable, outputVar))]>>
    /\ out' = <<>>
    /\ UNCHANGED httpFrame

\* Block.addDirective on the i-th UpstreamBlock of the http block
UpstreamAddDirective(i, directive) ==
    /\ httpBlock # <<>>
    /\ i \in 1..Len(httpBlock[1].upstreams)
    /\ Len(httpBlock[1].upstreams[i].directives) < MaxDirs
    /\ httpBlock' = <<[httpBlock[1] EXCEPT
                          !.upstreams[i].directives = addDirective(@, directive)]>>
    /\ out' = <<>>
    /\ UNCHANGED httpFrame

\* Block.addDirective on the i-th MapBlock of the http block
MapAddDirective(i, directive) ==
    /\ httpBlock # <<>>
    /\ i \in 1..Len(httpBlock[1].maps)
    /\ Len(httpBlock[1].maps[i].directives) < MaxDirs
    /\ httpBlock' = <<[httpBlock[1] EXCEPT
                          !.maps[i].directives = addDirective(@, directive)]>>
    /\ out' = <<>>
    /\ UNCHANGED httpFrame

\* MapBlock.set on the i-th MapBlock of the http block
MapSet(i, key, value) ==
    /\ httpBlock # <<>>
    /\ i \in 1..Len(httpBlock[1].maps)
    /\ Len(httpBlock[1].maps[i].items) < MaxItems
    /\ httpBlock' = <<[httpBlock[1] EXCEPT
                          !.maps[i].items =
                              Append(@, [key |-> key, value |-> value])]>>
    /\ out' = <<>>
    /\ UNCHANGED httpFrame

----------------------------------------------------------------------------
(* Server blocks live in HttpBlock.servers or in SiteConfig.servers; the    *)
(* operations below reach them through whichever root was constructed.      *)

Servers ==
    IF IsNginx THEN (IF httpBlock = <<>> THEN <<>> ELSE httpBlock[1].servers)
    ELSE siteServers

SetServers(new) ==
    /\ IF IsNginx
       THEN httpBlock' = <<[httpBlock[1] EXCEPT !.servers = new]>>
            /\ UNCHANGED siteServers
       ELSE siteServers' = new /\ UNCHANGED httpBlock
    /\ out' = <<>>
    /\ UNCHANGED <<userDirective, workerProcessesDirective, pidDirective,
                   eventsBlock, siteDirectives, otherVars>>

\* ServerBlock.listen: the server after the call
listen(server, portOrUnix, ssl) ==
    [server EXCEPT !.directives =
        addDirective(@, <<"listen", SP>> \o portOrUnix
                            \o (IF ssl THEN <<SP, "ssl">> ELSE <<>>))]

\* HttpBlock.addServer
HttpAddServer(portOrUnix, ssl) ==
    /\ IsNginx
    /\ httpBlock # <<>>
    /\ Len(httpBlock[1].servers) < MaxServers
    /\ SetServers(Append(Servers, listen(NewServerBlock, portOrUnix, ssl)))

\* SiteConfig.addServer
SiteAddServer(portOrUnix, ssl) ==
    /\ IsSite
    /\ Len(siteServers) < MaxServers
    /\ SetServers(Append(Servers, listen(NewServerBlock, portOrUnix, ssl)))

\* SiteConfig.include
SiteInclude(path) ==
    /\ IsSite
    /\ Len(siteDirectives) < MaxDirs
    /\ siteDirectives' = Append(siteDirectives,
                                <<"include", SP>> \o path \o <<SEMI>>)
    /\ out' = <<>>
    /\ UNCHANGED <<nginxVars, siteServers, otherVars>>

\* SiteConfig.build
SiteConfigBuild ==
    /\ IsSite
    /\ out' = <<SiteConfig_build(siteDirectives, siteServers)>>
    /\ UNCHANGED <<nginxVars, siteVars, otherVars>>

\* Block.addDirective on the i-th ServerBlock (which already holds `listen`)
ServerAddDirective(i, directive) ==
    /\ i \in 1..Len(Servers)
    /\ Len(Servers[i].directives) < MaxDirs + 1
    /\ SetServers([Servers EXCEPT ![i].directives = addDirective(@, directive)])

\* ServerBlock.addLocation
AddLocation(i, path, exact) ==
    /\ i \in 1..Len(Servers)
    /\ Len(Servers[i].locations) < MaxLocations
    /\ SetServers([Servers EXCEPT
                      ![i].locations = Append(@, NewLocationBlock(path, exact))])

\* Block.addDirective on the j-th LocationBlock of the i-th server
LocationAddDirective(i, j, directive) ==
    /\ i \in 1..Len(Servers)
    /\ j \in 1..Len(Servers[i].locations)
    /\ Len(Servers[i].locations[j].directives) < MaxDirs
    /\ SetServers([Servers EXCEPT
                      ![i].locations[j].directives = addDirective(@, directive)])

\* LocationBlock.root
LocationRoot(i, j, path) == LocationAddDirective(i, j, <<"root", SP>> \o path)

\* LocationBlock.if
LocationIf(i, j, condition) ==
    /\ i \in 1..Len(Servers)
    /\ j \in 1..Len(Servers[i].locations)
    /\ Len(Servers[i].locations[j].ifBlocks) < MaxIfs
    /\ SetServers([Servers EXCEPT
                      ![i].locations[j].ifBlocks =
                          Append(@, NewIfBlock(condition))])

\* Block.addDirective on the k-th IfBlock of that location
IfAddDirective(i, j, k, directive) ==
    /\ i \in 1..Len(Servers)
    /\ j \in 1..Len(Servers[i].locations)
    /\ k \in 1..Len(Servers[i].locations[j].ifBlocks)
    /\ Len(Servers[i].locations[j].ifBlocks[k].directives) < MaxDirs
    /\ SetServers([Servers EXCEPT
                      ![i].locations[j].ifBlocks[k].directives =
                          addDirective(@, directive)])

----------------------------------------------------------------------------
(* Spec: a program builds one document tree with free-form directives,     *)
(* typed options and child blocks, and calls build() at any time.          *)

Directives == {<<"d">>, <<"d", SEMI>>}
Users == {<<"nginx">>}
WorkerProcessesVals == {<<"auto">>}
PidPaths == {<<"/run/nginx.pid">>}
Ports == {numText(80)}
UpstreamNames == {<<"backend">>}
MapVariables == {<<"$uri">>}
MapOutputVars == {<<"$new">>}
MapKeys == {<<"k">>}
MapValues == {<<"v">>}
LocationPaths == {<<"/">>}
Conditions == {<<"$request_method", SP, "=", SP, "POST">>}
TypedRecords == {<<[key |-> "sendfile", value |-> Bool(TRUE)]>>}
IncludePaths == {<<"/etc/nginx/mime.types">>}

ServerIdx == 1..MaxServers
LocationIdx == 1..MaxLocations
IfIdx == 1..MaxIfs

BlockTreeNext ==
    \/ \E s \in Directives : EventsAddDirective(s)
    \/ \E s \in Directives : HttpAddDirective(s)
    \/ \E i \in 1..MaxUpstreams, s \in Directives : UpstreamAddDirective(i, s)
    \/ \E i \in 1..MaxMaps, s \in Directives : MapAddDirective(i, s)
    \/ \E i \in 1..MaxMaps, k \in MapKeys, v \in MapValues : MapSet(i, k, v)
    \/ \E i \in ServerIdx, s \in Directives : ServerAddDirective(i, s)
    \/ \E i \in ServerIdx, p \in LocationPaths : AddLocation(i, p, FALSE)
    \/ \E i \in ServerIdx, j \in LocationIdx, s \in Directives :
          LocationAddDirective(i, j, s)
    \/ \E i \in ServerIdx, j \in LocationIdx, c \in Conditions :
          LocationIf(i, j, c)
    \/ \E i \in ServerIdx, j \in LocationIdx, k \in IfIdx, s \in Directives :
          IfAddDirective(i, j, k, s)

Next ==
    \/ \E u \in Users : User(u)
    \/ Events
    \/ Http
    \/ \E d \in TypedRecords : ApplyTypedDirectives(d)
    \/ \E n \in UpstreamNames : AddUpstream(n)
    \/ \E v \in MapVariables, o \in MapOutputVars : AddMap(v, o)
    \/ \E p \in Ports : HttpAddServer(p, FALSE)
    \/ \E p \in Ports : SiteAddServer(p, FALSE)
    \/ \E p \in IncludePaths : SiteInclude(p)
    \/ BlockTreeNext
    \/ NginxConfigBuild
    \/ SiteConfigBuild

Spec == Init /\ [][Next]_vars

----------------------------------------------------------------------------
(* SpecUpstream: a program fills one UpstreamBlock with free-form           *)
(* directives and pool members and builds it.                               *)

\* mutant: the modifiers follow the key order of the options record
UpstreamBlock_serverText_keyOrder(address, options) ==
    LET part(p) ==
            CASE p.key = "weight" ->
                     IF p.value # Undefined
                     THEN << <<"weight", "=">> \o numText(p.value.v) >>
                     ELSE <<>>
              [] p.key = "maxFails" ->
                     IF p.value # Undefined
                     THEN << <<"max_fails", "=">> \o numText(p.value.v) >>
                     ELSE <<>>
              [] p.key = "failTimeout" ->
                     IF truthy(p.value)
                     THEN << <<"fail_timeout", "=">> \o p.value.v >> ELSE <<>>
              [] p.key = "backup" ->
                     IF truthy(p.value) THEN << <<"backup">> >> ELSE <<>>
              [] OTHER -> IF truthy(p.value) THEN << <<"down">> >> ELSE <<>>
        parts[n \in 0..Len(options)] ==
            IF n = 0 THEN <<address>> ELSE parts[n - 1] \o part(options[n])
    IN  <<"server", SP>> \o join(parts[Len(options)], <<SP>>)

\* UpstreamBlock.server: the text handed to addDirective
UpstreamBlock_serverText(address, options) ==
    LET o(key) == get(options, key)
        parts == <<address>>
            \o (IF o("weight") # Undefined
                THEN << <<"weight", "=">> \o numText(o("weight").v) >>
                ELSE <<>>)
            \o (IF o("maxFails") # Undefined
                THEN << <<"max_fails", "=">> \o numText(o("maxFails").v) >>
                ELSE <<>>)
            \o (IF truthy(o("failTimeout"))
                THEN << <<"fail_timeout", "=">> \o o("failTimeout").v >>
                ELSE <<>>)
            \o (IF truthy(o("backup")) THEN << <<"backup">> >> ELSE <<>>)
            \o (IF truthy(o("down")) THEN << <<"down">> >> ELSE <<>>)
    IN  <<"server", SP>> \o join(parts, <<SP>>)

upstreamFrame == <<nginxVars, siteVars, httpBlockB, root, heapVars>>

\* Block.addDirective on the free-standing UpstreamBlock
UpstreamBlockAddDirective(directive) ==
    /\ Len(upstream.directives) < MaxUpDirs
    /\ upstream' = [upstream EXCEPT !.directives = addDirective(@, directive)]
    /\ out' = <<>>
    /\ UNCHANGED upstreamFrame

\* UpstreamBlock.server
UpstreamBlockServer(address, options) ==
    /\ Len(upstream.directives) < MaxUpDirs
    /\ upstream' = [upstream EXCEPT !.directives =
                       addDirective(@, UpstreamBlock_serverText(address, options))]
    /\ out' = <<>>
    /\ UNCHANGED upstreamFrame

\* UpstreamBlock.build with the default indent
UpstreamBlockBuild ==
    /\ out' = <<UpstreamBlock_build(upstream, <<>>)>>
    /\ UNCHANGED <<upstream, upstreamFrame>>

Prop(key, value) == [key |-> key, value |-> value]

RawDirectives ==
    {<<>>, <<"a">>, <<SEMI>>, <<"a", SEMI>>, <<"a", SEMI, SEMI>>,
     <<"a", SEMI, "b">>}

Addresses == {<<"A">>, <<"B">>, <<"C">>}

\* options records, some of them the same record with another key order
OptionRecords ==
    {<<>>,
     <<Prop("weight", Num(3))>>,
     <<Prop("backup", Bool(TRUE))>>,
     <<Prop("down", Bool(TRUE))>>,
     <<Prop("backup", Bool(FALSE))>>,
     <<Prop("weight", Num(3)), Prop("maxFails", Num(3)),
       Prop("failTimeout", Str(<<"30s">>))>>,
     <<Prop("failTimeout", Str(<<"30s">>)), Prop("maxFails", Num(3)),
       Prop("weight", Num(3))>>,
     <<Prop("weight", Num(2)), Prop("backup", Bool(TRUE))>>,
     <<Prop("backup", Bool(TRUE)), Prop("weight", Num(2))>>}

NextUpstream ==
    \/ \E s \in RawDirectives : UpstreamBlockAddDirective(s)
    \/ \E a \in Addresses, o \in OptionRecords : UpstreamBlockServer(a, o)
    \/ UpstreamBlockBuild

InitNginx == Init /\ IsNginx

SpecUpstream == InitNginx /\ [][NextUpstream]_vars

----------------------------------------------------------------------------
(* Reading a built text line by line *)

\* the lines of a text, without their line terminators
RECURSIVE splitLines(_)
splitLines(t) ==
    IF \A i \in 1..Len(t) : t[i] # NL THEN <<t>>
    ELSE LET n == CHOOSE i \in 1..Len(t) :
                      t[i] = NL /\ \A j \in 1..(i - 1) : t[j] # NL
         IN  <<SubSeq(t, 1, n - 1)>> \o splitLines(SubSeq(t, n + 1, Len(t)))

RECURSIVE stripIndent(_)
stripIndent(line) ==
    IF line # <<>> /\ Head(line) = SP THEN stripIndent(Tail(line)) ELSE line

indentOf(line) == Len(line) - Len(stripIndent(line))

RECURSIVE trailingSemis(_)
trailingSemis(s) ==
    IF endsWith(s, SEMI) THEN 1 + trailingSemis(SubSeq(s, 1, Len(s) - 1))
    ELSE 0

----------------------------------------------------------------------------
(* C1 *)

\* C1 (as claimed): in every reachable state every entry of a directive
\* store ends with exactly one ';'.
C1_ExactlyOneSeparator ==
    \A i \in 1..Len(upstream.directives) :
        trailingSemis(upstream.directives[i]) = 1

\* C1 (amended): every entry of a directive store ends with ';';
\* addDirective(s) appends s + ';' when s does not end with ';' and appends
\* s unchanged when it does, so it never adds a second separator and the
\* entry ends with as many ';' as s does, but at least one; build() renders
\* each entry unchanged behind the indentation.
C1_SeparatorAddedOnlyWhenMissing ==
    /\ [](\A i \in 1..Len(upstream.directives) :
              trailingSemis(upstream.directives[i]) >= 1)
    /\ [](out # <<>> =>
              LET lines == splitLines(out[1])
              IN  \A i \in 1..Len(upstream.directives) :
                      lines[i + 1] = Indent4 \o upstream.directives[i])
    /\ [][\A s \in RawDirectives :
              UpstreamBlockAddDirective(s) =>
                  LET new == upstream'.directives
                      e == new[Len(new)]
                  IN  /\ Len(new) = Len(upstream.directives) + 1
                      /\ trailingSemis(s) = 0 => e = s \o <<SEMI>>
                      /\ trailingSemis(s) >= 1 => e = s
                      /\ trailingSemis(e) =
                            (IF trailingSemis(s) = 0 THEN 1
                             ELSE trailingSemis(s))]_vars

\* C1 witness: a text without and a text with its separator were stored,
\* and the block was built
C1_Witness ==
    /\ out # <<>>
    /\ Len(upstream.directives) = 2
    /\ upstream.directives[1] = <<"a", SEMI, "b", SEMI>>
    /\ upstream.directives[2] = <<"a", SEMI>>

----------------------------------------------------------------------------
(* C2 *)

\* C2: a build() call changes no directive store, typed-option record or
\* child collection and creates no events or http block, and a build()
\* that directly follows a build() returns the same text.
C2_BuildChangesNothing ==
    [][out' # <<>> =>
          /\ UNCHANGED <<nginxVars, siteVars, httpBlockB, upstream>>
          /\ out # <<>> => out' = out]_vars

\* C2 witness: a document without events and http block was built and still
\* has neither
C2_Witness ==
    /\ out # <<>>
    /\ IsNginx
    /\ userDirective # <<>>
    /\ eventsBlock = <<>>
    /\ httpBlock = <<>>

----------------------------------------------------------------------------
(* C3 *)

\* the minimal empty-body form: one line that ends with `{}`
EmptyForm(t) ==
    /\ Len(splitLines(t)) = 1
    /\ Len(t) >= 2
    /\ t[Len(t) - 1] = "{"
    /\ t[Len(t)] = "}"

\* C3 (as claimed): every block of the tree that has no directives and no
\* children builds to its opening text followed directly by `{}`.
C3_EmptyBodyRule ==
    /\ eventsBlock # <<>> /\ eventsBlock[1].directives = <<>>
           => EmptyForm(EventsBlock_build(eventsBlock[1]))
    /\ httpBlock # <<>> =>
        LET h == httpBlock[1]
        IN  /\ (h = NewHttpBlock => EmptyForm(HttpBlock_build(h, <<>>)))
            /\ \A i \in 1..Len(h.upstreams) :
                   h.upstreams[i].directives = <<>>
                       => EmptyForm(UpstreamBlock_build(h.upstreams[i], Indent4))
            /\ \A i \in 1..Len(h.maps) :
                   h.maps[i].directives = <<>> /\ h.maps[i].items = <<>>
                       => EmptyForm(MapBlock_build(h.maps[i], Indent4))
    /\ \A i \in 1..Len(Servers) :
        /\ Servers[i].directives = <<>> /\ Servers[i].locations = <<>>
               => EmptyForm(ServerBlock_build(Servers[i], <<>>))
        /\ \A j \in 1..Len(Servers[i].locations) :
            LET loc == Servers[i].locations[j]
            IN  /\ loc.directives = <<>> /\ loc.ifBlocks = <<>>
                       => EmptyForm(LocationBlock_build(loc, Indent4))
                /\ \A k \in 1..Len(loc.ifBlocks) :
                       loc.ifBlocks[k].directives = <<>>
                           => EmptyForm(IfBlock_build(loc.ifBlocks[k],
                                                      Indent4 \o Indent4))

----------------------------------------------------------------------------
(* C5 *)

\* the groups of an http block in the claimed order, each with its members
\* and the separator between its members
HttpGroups(h) ==
    << [members |-> prefixEach(buildTypedDirectives(h.typedDirectives), Indent4),
        sep |-> <<NL>>],
       [members |-> prefixEach(h.directives, Indent4), sep |-> <<NL>>],
       [members |-> [i \in 1..Len(h.upstreams) |->
                        UpstreamBlock_build(h.upstreams[i], Indent4)],
        sep |-> BlankLine],
       [members |-> [i \in 1..Len(h.maps) |->
                        MapBlock_build(h.maps[i], Indent4)],
        sep |-> BlankLine],
       [members |-> [i \in 1..Len(h.servers) |->
                        ServerBlock_build(h.servers[i], Indent4)],
        sep |-> BlankLine] >>

\* C5: the body of a built http block is its non-empty groups in the order
\* typed options, free-form directives, upstreams, maps, servers, the members
\* of a child collection in insertion order with one blank line between them,
\* one blank line between adjacent non-empty groups, and nothing for an
\* empty group.
C5_GroupsInFixedOrder ==
    httpBlock # <<>> =>
        LET h == httpBlock[1]
            present == SelectSeq(HttpGroups(h), LAMBDA g : Len(g.members) > 0)
            body == join([n \in 1..Len(present) |->
                             join(present[n].members, present[n].sep)],
                         BlankLine)
        IN  present # <<>> =>
                HttpBlock_build(h, <<>>)
                    = <<"http", SP, "{", NL>> \o body \o <<NL, "}">>

\* C5 witness: an http block with all five groups, two upstreams among
\* them, was built
C5_Witness ==
    /\ out # <<>>
    /\ httpBlock # <<>>
    /\ httpBlock[1].typedDirectives # <<>>
    /\ httpBlock[1].directives # <<>>
    /\ Len(httpBlock[1].upstreams) = 2
    /\ Len(httpBlock[1].maps) = 1
    /\ Len(httpBlock[1].servers) = 1

----------------------------------------------------------------------------
(* C6 *)

\* every non-blank line is indented by four spaces per nesting level, the
\* level being counted from the braces that open and close blocks
RECURSIVE wellIndented(_, _)
wellIndented(lines, depth) ==
    IF lines = <<>> THEN TRUE
    ELSE LET l == Head(lines)
             body == stripIndent(l)
         IN  IF body = <<>> THEN wellIndented(Tail(lines), depth)
             ELSE IF body = <<"}">>
                  THEN /\ indentOf(l) = 4 * (depth - 1)
                       /\ wellIndented(Tail(lines), depth - 1)
             ELSE IF body[Len(body)] = "{"
                  THEN /\ indentOf(l) = 4 * depth
                       /\ wellIndented(Tail(lines), depth + 1)
             ELSE /\ indentOf(l) = 4 * depth
                  /\ wellIndented(Tail(lines), depth)

\* C6 (as claimed): in a built document the opening and closing line of a
\* block at depth d are indented by 4*d spaces and its body lines by 4*(d+1).
C6_FourSpacesPerLevel ==
    out # <<>> => wellIndented(splitLines(out[1]), 0)

----------------------------------------------------------------------------
(* C8 *)

\* the body lines of the outermost block of a text, without indentation:
\* the lines at nesting level 1 that neither open nor close a block
RECURSIVE ownLines(_, _)
ownLines(lines, depth) ==
    IF lines = <<>> THEN <<>>
    ELSE LET body == stripIndent(Head(lines))
         IN  IF body = <<>> THEN ownLines(Tail(lines), depth)
             ELSE IF body = <<"}">> THEN ownLines(Tail(lines), depth - 1)
             ELSE IF body[Len(body)] = "{" THEN ownLines(Tail(lines), depth + 1)
             ELSE (IF depth = 1 THEN <<body>> ELSE <<>>)
                      \o ownLines(Tail(lines), depth)

\* the body lines of a built block that are not among `others`
directiveLines(text, others) ==
    SelectSeq(ownLines(splitLines(text), 0),
              LAMBDA l : \A n \in 1..Len(others) : others[n] # l)

\* C8 (as claimed): the build() of every block of the tree holds exactly the
\* block's stored directives as body lines, in call order (beside the typed
\* option lines of an http block and the pairs of a map block).
C8_EveryDirectiveIsABodyLine ==
    /\ eventsBlock # <<>> =>
           directiveLines(EventsBlock_build(eventsBlock[1]), <<>>)
               = eventsBlock[1].directives
    /\ httpBlock # <<>> =>
        LET h == httpBlock[1]
        IN  /\ directiveLines(HttpBlock_build(h, <<>>),
                              buildTypedDirectives(h.typedDirectives))
                   = h.directives
            /\ \A i \in 1..Len(h.upstreams) :
                   directiveLines(UpstreamBlock_build(h.upstreams[i], <<>>), <<>>)
                       = h.upstreams[i].directives
            /\ \A i \in 1..Len(h.maps) :
                   directiveLines(MapBlock_build(h.maps[i], <<>>),
                                  [n \in 1..Len(h.maps[i].items) |->
                                      h.maps[i].items[n].key \o <<SP>>
                                          \o h.maps[i].items[n].value
                                          \o <<SEMI>>])
                       = h.maps[i].directives
    /\ \A i \in 1..Len(Servers) :
        /\ directiveLines(ServerBlock_build(Servers[i], <<>>), <<>>)
               = Servers[i].directives
        /\ \A j \in 1..Len(Servers[i].locations) :
            LET loc == Servers[i].locations[j]
            IN  /\ directiveLines(LocationBlock_build(loc, <<>>), <<>>)
                       = loc.directives
                /\ \A k \in 1..Len(loc.ifBlocks) :
                       directiveLines(IfBlock_build(loc.ifBlocks[k], <<>>), <<>>)
                           = loc.ifBlocks[k].directives

----------------------------------------------------------------------------
(* C9 *)

\* C9: the text returned by NginxConfig.build() or SiteConfig.build() ends
\* with exactly one newline, also for an empty document.
C9_OneTrailingNewline ==
    out # <<>> =>
        LET t == out[1]
        IN  /\ Len(t) >= 1
            /\ t[Len(t)] = NL
            /\ Len(t) > 1 => t[Len(t) - 1] # NL

\* C9 witness: a site with an include and a server holding a location was
\* built
C9_Witness ==
    /\ out # <<>>
    /\ IsSite
    /\ siteDirectives # <<>>
    /\ Len(siteServers) = 1
    /\ Len(siteServers[1].locations) = 1

----------------------------------------------------------------------------
(* SpecTyped: two programs each merge typed options into the http block of  *)
(* their own NginxConfig, in any number of calls and any key order.         *)

\* for comparison: typedDirectives is one record shared by every HttpBlock
ApplyTypedDirectivesB_sharedField(d) ==
    /\ httpBlock # <<>>
    /\ httpBlockB' = [httpBlockB EXCEPT !.typedDirectives = objectAssign(@, d)]
    /\ httpBlock' = <<[httpBlock[1] EXCEPT
                          !.typedDirectives = httpBlockB'.typedDirectives]>>
    /\ out' = <<>>
    /\ UNCHANGED <<userDirective, workerProcessesDirective, pidDirective,
                   eventsBlock, siteVars, upstream, root, heapVars>>

\* HttpBlock.applyTypedDirectives on the http block of the second document
ApplyTypedDirectivesB(d) ==
    /\ httpBlockB' = [httpBlockB EXCEPT !.typedDirectives = objectAssign(@, d)]
    /\ out' = <<>>
    /\ UNCHANGED <<nginxVars, siteVars, upstream, root, heapVars>>

TypedProps ==
    {Prop("sendfile", Bool(TRUE)), Prop("sendfile", Bool(FALSE)),
     Prop("keepalive_timeout", Num(65)),
     Prop("default_type", Str(<<"text/html">>))}

\* the records of at most MaxTypedKeys properties, in every key order
TypedInputs ==
    {d \in UNION {[1..n -> TypedProps] : n \in 0..MaxTypedKeys} :
        \A i, j \in 1..Len(d) : i # j => d[i].key # d[j].key}

NextTyped ==
    \/ Http
    \/ \E d \in TypedInputs : ApplyTypedDirectives(d)
    \/ \E d \in TypedInputs : ApplyTypedDirectivesB(d)
    \/ NginxConfigBuild

SpecTyped == InitNginx /\ [][NextTyped]_vars

\* the keys and values of an object, whatever their order
propsOf(obj) == {obj[i] : i \in 1..Len(obj)}

\* C4: two http blocks whose applyTypedDirectives calls left the same keys
\* and values build to the same text, whatever the calls and their order.
C4_TypedOrderIndependent ==
    httpBlock # <<>>
        /\ propsOf(httpBlock[1].typedDirectives) = propsOf(httpBlockB.typedDirectives)
    => HttpBlock_build(httpBlock[1], <<>>) = HttpBlock_build(httpBlockB, <<>>)

\* C4 witness: the same three options were merged in different orders into
\* the two blocks, and the first document was built
C4_Witness ==
    /\ out # <<>>
    /\ httpBlock # <<>>
    /\ Len(httpBlock[1].typedDirectives) = 3
    /\ propsOf(httpBlock[1].typedDirectives) = propsOf(httpBlockB.typedDirectives)
    /\ httpBlock[1].typedDirectives # httpBlockB.typedDirectives
    /\ httpBlock[1].typedDirectives[1].key = "default_type"
    /\ httpBlockB.typedDirectives[3].key = "default_type"

----------------------------------------------------------------------------
(* SpecScenario: a program builds an NginxConfig from the calls of the      *)
(* end-to-end scenario, in any order and number.                            *)

NextScenario ==
    \/ User(<<"nginx">>)
    \/ \E v \in WorkerProcessesVals : WorkerProcesses(v)
    \/ \E p \in PidPaths : Pid(p)
    \/ Events
    \/ WorkerConnections(1024)
    \/ Http
    \/ \E ssl \in BOOLEAN : HttpAddServer(numText(80), ssl)
    \/ \E i \in ServerIdx, e \in BOOLEAN : AddLocation(i, <<"/">>, e)
    \/ \E i \in ServerIdx, j \in LocationIdx :
          LocationRoot(i, j, <<"/var/www/html">>)
    \/ NginxConfigBuild

SpecScenario == InitNginx /\ [][NextScenario]_vars

\* the tree left by user("nginx"), events().workerConnections(1024) and
\* http().addServer(80) with one location "/" holding root("/var/www/html")
ScenarioTree ==
    /\ userDirective = << <<"user", SP, "nginx", SEMI>> >>
    /\ workerProcessesDirective = <<>>
    /\ pidDirective = <<>>
    /\ eventsBlock =
         <<[directives |-> << <<"worker_connections", SP, "1024", SEMI>> >>]>>
    /\ httpBlock =
         <<[directives |-> <<>>, typedDirectives |-> <<>>,
            upstreams |-> <<>>, maps |-> <<>>,
            servers |->
              <<[directives |-> << <<"listen", SP, "80", SEMI>> >>,
                 locations |->
                   <<[path |-> <<"/">>, exact |-> FALSE,
                      directives |-> << <<"root", SP, "/var/www/html", SEMI>> >>,
                      ifBlocks |-> <<>>]>>]>>]>>

ScenarioText ==
       <<"user", SP, "nginx", SEMI, NL>>
    \o <<NL>>
    \o <<"events", SP, "{", NL>>
    \o <<SP, SP, SP, SP, "worker_connections", SP, "1024", SEMI, NL>>
    \o <<"}", NL>>
    \o <<NL>>
    \o <<"http", SP, "{", NL>>
    \o <<SP, SP, SP, SP, "server", SP, "{", NL>>
    \o <<SP, SP, SP, SP, SP, SP, SP, SP, "listen", SP, "80", SEMI, NL>>
    \o <<NL>>
    \o <<SP, SP, SP, SP, SP, SP, SP, SP, "location", SP, SP, "/", SP, "{", NL>>
    \o <<SP, SP, SP, SP, SP, SP, SP, SP, SP, SP, SP, SP,
         "root", SP, "/var/www/html", SEMI, NL>>
    \o <<SP, SP, SP, SP, SP, SP, SP, SP, "}", NL>>
    \o <<SP, SP, SP, SP, "}", NL>>
    \o <<"}", NL>>

\* C7: the scenario tree builds to exactly the user line, a blank line, the
\* events block, a blank line and the http block holding the server block
\* holding the location block, four spaces per level, one final newline.
C7_ScenarioText ==
    ScenarioTree /\ out # <<>> => out[1] = ScenarioText

\* C7 witness: the scenario tree was built
C7_Witness == ScenarioTree /\ out # <<>>

----------------------------------------------------------------------------
(* C10 *)

ModifierOrder == <<"weight", "maxFails", "failTimeout", "backup", "down">>

\* a modifier is supplied when its number is given, its text is given and
\* not empty, or its flag is true
modifierSupplied(options, key) ==
    \E i \in 1..Len(options) :
        /\ options[i].key = key
        /\ options[i].value \notin {Undefined, Bool(FALSE), Str(<<>>)}

modifierText(options, key) ==
    LET v == (CHOOSE p \in propsOf(options) : p.key = key).value
    IN  CASE key = "weight" -> <<"weight", "=", ToString(v.v)>>
          [] key = "maxFails" -> <<"max_fails", "=", ToString(v.v)>>
          [] key = "failTimeout" -> <<"fail_timeout", "=">> \o v.v
          [] key = "backup" -> <<"backup">>
          [] OTHER -> <<"down">>

RECURSIVE modifierTail(_, _)
modifierTail(options, keys) ==
    IF keys = <<>> THEN <<>>
    ELSE (IF modifierSupplied(options, Head(keys))
          THEN <<SP>> \o modifierText(options, Head(keys)) ELSE <<>>)
             \o modifierTail(options, Tail(keys))

\* C10: server(address, options) appends one directive, `server`, the
\* address and the supplied modifiers in the order weight, max_fails,
\* fail_timeout, backup, down whatever the key order of the record, and
\* build() renders the directives in call order.
C10_ServerLine ==
    /\ [][\A a \in Addresses, o \in OptionRecords :
              UpstreamBlockServer(a, o) =>
                  upstream'.directives =
                      Append(upstream.directives,
                             <<"server", SP>> \o a
                                 \o modifierTail(o, ModifierOrder)
                                 \o <<SEMI>>)]_vars
    /\ [](out # <<>> =>
              out[1] = <<"upstream", SP, "backend", SP, "{", NL>>
                           \o join(prefixEach(upstream.directives, Indent4),
                                   <<NL>>)
                           \o <<NL, "}">>)

\* C10 witness: A (weight=3), B (backup=true) and C (down=true) were added
\* in that order and the block was built
C10_Witness ==
    /\ upstream.directives =
         << <<"server", SP, "A", SP, "weight", "=", "3", SEMI>>,
            <<"server", SP, "B", SP, "backup", SEMI>>,
            <<"server", SP, "C", SP, "down", SEMI>> >>
    /\ out = << <<"upstream", SP, "backend", SP, "{", NL,
                  SP, SP, SP, SP, "server", SP, "A", SP, "weight", "=", "3",
                  SEMI, NL,
                  SP, SP, SP, SP, "server", SP, "B", SP, "backup", SEMI, NL,
                  SP, SP, SP, SP, "server", SP, "C", SP, "down", SEMI, NL,
                  "}">> >>

----------------------------------------------------------------------------
(* SpecCors: a program adds free-form directives and CORS headers to the    *)
(* first location of the first server of the http block and builds the      *)
(* document.                                                                *)

\* mutant: the directive holds the value only
addHeader_valueOnly(directives, name, value) ==
    addDirective(directives, <<"add_header", SP>> \o value)

\* LocationBlock.addHeader: the new contents of this.directives
addHeader(directives, name, value) ==
    addDirective(directives, <<"add_header", SP, name, SP>> \o value)

\* mutant: the credentials header is added after the max-age header
LocationBlock_enableCors_credentialsLast(directives, options) ==
    LET field(key, default) ==
            IF get(options, key) = Undefined THEN default
            ELSE get(options, key)
        origins == field("origins", Arr(<< <<"*">> >>))
        methods == field("methods", Arr(<< <<"GET">>, <<"POST">>, <<"OPTIONS">> >>))
        headers == field("headers", Arr(<< <<"DNT">>, <<"X-CustomHeader">>,
                                           <<"Keep-Alive">>, <<"User-Agent">> >>))
        credentials == field("credentials", Bool(FALSE))
        maxAge == field("maxAge", Num(1728000))
        d1 == addHeader(directives, "Access-Control-Allow-Origin",
                        join(origins.v, <<SP>>))
        d2 == addHeader(d1, "Access-Control-Allow-Methods",
                        join(methods.v, <<SP>>))
        d3 == addHeader(d2, "Access-Control-Allow-Headers",
                        join(headers.v, <<SP>>))
        d4 == addHeader(d3, "Access-Control-Max-Age", numText(maxAge.v))
    IN  IF truthy(credentials)
        THEN addHeader(d4, "Access-Control-Allow-Credentials", <<"true">>)
        ELSE d4

\* LocationBlock.enableCors: the new contents of this.directives
LocationBlock_enableCors(directives, options) ==
    LET field(key, default) ==
            IF get(options, key) = Undefined THEN default
            ELSE get(options, key)
        origins == field("origins", Arr(<< <<"*">> >>))
        methods == field("methods", Arr(<< <<"GET">>, <<"POST">>, <<"OPTIONS">> >>))
        headers == field("headers", Arr(<< <<"DNT">>, <<"X-CustomHeader">>,
                                           <<"Keep-Alive">>, <<"User-Agent">> >>))
        credentials == field("credentials", Bool(FALSE))
        maxAge == field("maxAge", Num(1728000))
        d1 == addHeader(directives, "Access-Control-Allow-Origin",
                        join(origins.v, <<SP>>))
        d2 == addHeader(d1, "Access-Control-Allow-Methods",
                        join(methods.v, <<SP>>))
        d3 == addHeader(d2, "Access-Control-Allow-Headers",
                        join(headers.v, <<SP>>))
        d4 == IF truthy(credentials)
              THEN addHeader(d3, "Access-Control-Allow-Credentials", <<"true">>)
              ELSE d3
    IN  addHeader(d4, "Access-Control-Max-Age", numText(maxAge.v))

\* LocationBlock.enableCors on the j-th LocationBlock of the i-th server
LocationEnableCors(i, j, options) ==
    /\ i \in 1..Len(Servers)
    /\ j \in 1..Len(Servers[i].locations)
    /\ Len(Servers[i].locations[j].directives) <= MaxDirs
    /\ SetServers([Servers EXCEPT
                      ![i].locations[j].directives =
                          LocationBlock_enableCors(@, options)])

\* an optional field: omitted, or supplied with one of the given values
Optional(key, values) == {<<>>} \cup {<<Prop(key, v)>> : v \in values}

\* the options records: every field omitted or supplied, credentials
\* supplied as true and as false
CorsOptions ==
    {o1 \o o2 \o o3 \o o4 \o o5 :
        o1 \in Optional("origins", {Arr(<< <<"a.example">>, <<"b.example">> >>)}),
        o2 \in Optional("methods", {Arr(<< <<"GET">> >>)}),
        o3 \in Optional("headers", {Arr(<< <<"X-Token">> >>)}),
        o4 \in Optional("credentials", {Bool(TRUE), Bool(FALSE)}),
        o5 \in Optional("maxAge", {Num(600)})}

NextCors ==
    \/ Http
    \/ \E p \in Ports : HttpAddServer(p, FALSE)
    \/ \E p \in LocationPaths : AddLocation(1, p, FALSE)
    \/ \E s \in Directives : LocationAddDirective(1, 1, s)
    \/ \E o \in CorsOptions : LocationEnableCors(1, 1, o)
    \/ NginxConfigBuild

SpecCors == InitNginx /\ [][NextCors]_vars

----------------------------------------------------------------------------
(* C11 *)

\* the value of an options field, or the documented default when omitted
corsField(options, key, default) ==
    IF hasKey(options, key) THEN get(options, key).v ELSE default

\* the header directives expected from an options record
corsExpected(options) ==
    LET header(name, value) ==
            <<"add_header", SP, name, SP>> \o value \o <<SEMI>>
    IN  << header("Access-Control-Allow-Origin",
                  join(corsField(options, "origins", << <<"*">> >>), <<SP>>)),
           header("Access-Control-Allow-Methods",
                  join(corsField(options, "methods",
                                 << <<"GET">>, <<"POST">>, <<"OPTIONS">> >>),
                       <<SP>>)),
           header("Access-Control-Allow-Headers",
                  join(corsField(options, "headers",
                                 << <<"DNT">>, <<"X-CustomHeader">>,
                                    <<"Keep-Alive">>, <<"User-Agent">> >>),
                       <<SP>>)) >>
        \o (IF corsField(options, "credentials", FALSE)
            THEN <<header("Access-Control-Allow-Credentials", <<"true">>)>>
            ELSE <<>>)
        \o <<header("Access-Control-Max-Age",
                    <<ToString(corsField(options, "maxAge", 1728000))>>)>>

\* C11: enableCors(options) appends to the location's directives, after
\* those already there, the add_header directives Allow-Origin,
\* Allow-Methods, Allow-Headers, Allow-Credentials (only when credentials is
\* true) and Max-Age in that order, each omitted field taking its default
\* (origins *, methods GET POST OPTIONS, credentials false, maxAge 1728000).
C11_CorsFixedOrder ==
    [][\A i \in ServerIdx, j \in LocationIdx, o \in CorsOptions :
          LocationEnableCors(i, j, o) =>
              Servers'[i].locations[j].directives =
                  Servers[i].locations[j].directives \o corsExpected(o)]_vars

\* C11 witness: a location that held one directive received the headers of
\* enableCors({credentials: true}), the credentials line fourth of five, and
\* the document was built
C11_Witness ==
    /\ out # <<>>
    /\ Len(Servers) = 1
    /\ Len(Servers[1].locations) = 1
    /\ Servers[1].locations[1].directives =
         << <<"d", SEMI>> >> \o corsExpected(<<Prop("credentials", Bool(TRUE))>>)
    /\ Len(Servers[1].locations[1].directives) = 6
    /\ Servers[1].locations[1].directives[5] =
         <<"add_header", SP, "Access-Control-Allow-Credentials", SP, "true", SEMI>>

----------------------------------------------------------------------------
(* C12 *)

\* the add_header lines of a built text, in order
headerLines(text) ==
    SelectSeq(splitLines(text),
              LAMBDA l : stripIndent(l) # <<>>
                            /\ Head(stripIndent(l)) = "add_header")

\* C12 (as claimed): enableCors() with no options makes the location render
\* five more header directives.
C12_DefaultCorsFiveLines ==
    [][\A i \in ServerIdx, j \in LocationIdx :
          LocationEnableCors(i, j, <<>>) =>
              Len(headerLines(LocationBlock_build(Servers'[i].locations[j], <<>>)))
                = Len(headerLines(LocationBlock_build(Servers[i].locations[j],
                                                      <<>>))) + 5]_vars

\* C12 (amended): enableCors() with no options makes the location render
\* exactly four more header directives, Allow-Origin *, Allow-Methods GET
\* POST OPTIONS, Allow-Headers DNT X-CustomHeader Keep-Alive User-Agent and
\* Max-Age 1728000 in that order, and no Allow-Credentials line.
C12_DefaultCorsFourLines ==
    [][\A i \in ServerIdx, j \in LocationIdx :
          LocationEnableCors(i, j, <<>>) =>
              headerLines(LocationBlock_build(Servers'[i].locations[j], <<>>))
                = headerLines(LocationBlock_build(Servers[i].locations[j], <<>>))
                  \o << Indent4 \o <<"add_header", SP,
                                     "Access-Control-Allow-Origin", SP, "*", SEMI>>,
                        Indent4 \o <<"add_header", SP,
                                     "Access-Control-Allow-Methods", SP,
                                     "GET", SP, "POST", SP, "OPTIONS", SEMI>>,
                        Indent4 \o <<"add_header", SP,
                                     "Access-Control-Allow-Headers", SP,
                                     "DNT", SP, "X-CustomHeader", SP,
                                     "Keep-Alive", SP, "User-Agent", SEMI>>,
                        Indent4 \o <<"add_header", SP,
                                     "Access-Control-Max-Age", SP, "1728000",
                                     SEMI>> >>]_vars

\* C12 witness: a location whose only directives are those of enableCors()
\* was built, and the document shows four add_header lines
C12_Witness ==
    /\ out # <<>>
    /\ Len(Servers) = 1
    /\ Len(Servers[1].locations) = 1
    /\ Servers[1].locations[1].directives = corsExpected(<<>>)
    /\ Len(headerLines(out[1])) = 4

----------------------------------------------------------------------------
(* Block: the structured option helpers *)

Obj(o) == [type |-> "object", v |-> o]

\* `${x}` in a template literal
text(x) ==
    CASE x.type = "string" -> x.v
      [] x.type = "number" -> numText(x.v)
      [] x.type = "boolean" -> IF x.v THEN <<"true">> ELSE <<"false">>
      [] x.type = "array" -> join(x.v, <<",">>)
      [] OTHER -> <<"undefined">>

\* x?.length, as a condition
nonEmptyArray(x) == x.type = "array" /\ Len(x.v) > 0

\* for comparison: the texts are appended last first
RECURSIVE addDirectives_reversed(_, _)
addDirectives_reversed(directives, texts) ==
    IF texts = <<>> THEN directives
    ELSE addDirective(addDirectives_reversed(directives, Tail(texts)),
                      Head(texts))

\* this.addDirective(t) for each text of a sequence, in order
RECURSIVE addDirectives(_, _)
addDirectives(directives, texts) ==
    IF texts = <<>> THEN directives
    ELSE addDirectives(addDirective(directives, Head(texts)), Tail(texts))

\* Block.applyCommonDirectives: the new contents of this.directives
applyCommonDirectives(directives, d) ==
    LET accessLog == get(d, "accessLog")
        errorLog == get(d, "errorLog")
        flag(key) ==
            IF get(d, key) # Undefined
            THEN << <<key, SP>> \o onOff(get(d, key)) >>
            ELSE <<>>
    IN  addDirectives(directives,
            (IF truthy(accessLog)
             THEN IF accessLog = Str(<<"off">>)
                  THEN << <<"access_log", SP, "off">> >>
                  ELSE LET format ==
                               IF truthy(get(accessLog.v, "format"))
                               THEN <<SP>> \o text(get(accessLog.v, "format"))
                               ELSE <<>>
                       IN  << <<"access_log", SP>>
                                  \o text(get(accessLog.v, "path")) \o format >>
             ELSE <<>>)
         \o (IF truthy(errorLog)
             THEN LET level ==
                          IF truthy(get(errorLog.v, "level"))
                          THEN <<SP>> \o text(get(errorLog.v, "level"))
                          ELSE <<>>
                  IN  << <<"error_log", SP>>
                             \o text(get(errorLog.v, "path")) \o level >>
             ELSE <<>>)
         \o (IF truthy(get(d, "clientMaxBodySize"))
             THEN << <<"client_max_body_size", SP>>
                        \o text(get(d, "clientMaxBodySize")) >>
             ELSE <<>>)
         \o (IF truthy(get(d, "sendTimeout"))
             THEN << <<"send_timeout", SP>> \o text(get(d, "sendTimeout")) >>
             ELSE <<>>)
         \o flag("sendfile")
         \o flag("tcp_nopush")
         \o flag("tcp_nodelay"))

\* Block.configureCompression: the new contents of this.directives
configureCompression(directives, options) ==
    LET o(key) == get(options, key)
    IN  addDirectives(directives,
            (IF o("enable") # Undefined
             THEN << <<"gzip", SP>> \o onOff(o("enable")) >>
             ELSE <<>>)
         \o (IF truthy(o("minLength"))
             THEN << <<"gzip_min_length", SP>> \o text(o("minLength")) >>
             ELSE <<>>)
         \o (IF nonEmptyArray(o("types"))
             THEN << <<"gzip_types", SP>> \o join(o("types").v, <<SP>>) >>
             ELSE <<>>)
         \o (IF truthy(o("proxied"))
             THEN << <<"gzip_proxied", SP>> \o text(o("proxied")) >>
             ELSE <<>>)
         \o (IF o("vary") # Undefined
             THEN << <<"gzip_vary", SP>> \o onOff(o("vary")) >>
             ELSE <<>>)
         \o (IF o("level") # Undefined
             THEN << <<"gzip_comp_level", SP>> \o text(o("level")) >>
             ELSE <<>>)
         \o (IF truthy(o("buffers"))
             THEN << <<"gzip_buffers", SP>>
                        \o text(get(o("buffers").v, "number")) \o <<SP>>
                        \o text(get(o("buffers").v, "size")) >>
             ELSE <<>>))

\* Block.configureCache: the new contents of this.directives
configureCache(directives, options) ==
    LET o(key) == get(options, key)
    IN  addDirectives(directives,
            (IF truthy(o("path"))
             THEN << <<"proxy_cache_path", SP>> \o text(o("path"))
                        \o (IF truthy(o("maxSize"))
                            THEN <<SP, "max_size", "=">> \o text(o("maxSize"))
                            ELSE <<>>)
                        \o (IF truthy(o("inactiveTime"))
                            THEN <<SP, "inactive", "=">> \o text(o("inactiveTime"))
                            ELSE <<>>)
                        \o <<SP, "keys_zone", "=", "my_cache:10m">> >>
             ELSE <<>>)
         \o (IF truthy(o("validTime"))
             THEN << <<"proxy_cache_valid", SP>> \o text(o("validTime")) >>
             ELSE <<>>)
         \o (IF nonEmptyArray(o("useStale"))
             THEN << <<"proxy_cache_use_stale", SP>>
                        \o join(o("useStale").v, <<SP>>) >>
             ELSE <<>>)
         \o (IF truthy(o("key"))
             THEN << <<"proxy_cache_key", SP>> \o text(o("key")) >>
             ELSE <<>>))

MaxOptDirs == 2     \* directives in the http block when an option helper is called

\* Block.applyCommonDirectives on the HttpBlock
HttpApplyCommonDirectives(d) ==
    /\ httpBlock # <<>>
    /\ Len(httpBlock[1].directives) < MaxOptDirs
    /\ httpBlock' = <<[httpBlock[1] EXCEPT
                          !.directives = applyCommonDirectives(@, d)]>>
    /\ out' = <<>>
    /\ UNCHANGED httpFrame

\* Block.configureCompression on the HttpBlock
HttpConfigureCompression(options) ==
    /\ httpBlock # <<>>
    /\ Len(httpBlock[1].directives) < MaxOptDirs
    /\ httpBlock' = <<[httpBlock[1] EXCEPT
                          !.directives = configureCompression(@, options)]>>
    /\ out' = <<>>
    /\ UNCHANGED httpFrame

\* Block.configureCache on the HttpBlock
HttpConfigureCache(options) ==
    /\ httpBlock # <<>>
    /\ Len(httpBlock[1].directives) < MaxOptDirs
    /\ httpBlock' = <<[httpBlock[1] EXCEPT
                          !.directives = configureCache(@, options)]>>
    /\ out' = <<>>
    /\ UNCHANGED httpFrame

----------------------------------------------------------------------------
(* SpecTotal: a program feeds the http block of an NginxConfig empty,       *)
(* malformed and conflicting values through every kind of operation and     *)
(* builds the document.                                                     *)

\* CommonDirectives records: an empty log path, a negative size, sendfile
\* both ways
BadCommon ==
    {<<>>,
     <<Prop("accessLog", Obj(<<Prop("path", Str(<<>>))>>))>>,
     <<Prop("accessLog", Str(<<"off">>)), Prop("sendfile", Bool(FALSE))>>,
     <<Prop("clientMaxBodySize", Str(<<"-1">>)), Prop("sendfile", Bool(TRUE))>>}

\* CompressionOptions records: a level out of range, an empty type list
BadCompression ==
    {<<Prop("level", Num(-1))>>,
     <<Prop("enable", Bool(TRUE)), Prop("types", Arr(<<>>))>>}

\* CacheOptions records: a size that is no size, a key that is a separator
BadCache ==
    {<<Prop("path", Str(<<"/c">>)), Prop("maxSize", Str(<<"big">>))>>,
     <<Prop("key", Str(<<SEMI>>))>>}

\* HttpTypedDirectives records: a negative timeout with sendfile on, and
\* sendfile off
BadTyped ==
    {<<Prop("keepalive_timeout", Num(-1)), Prop("sendfile", Bool(TRUE))>>,
     <<Prop("sendfile", Bool(FALSE))>>}

\* ports: out of range, empty
BadPorts == {numText(99999), <<>>}

\* directive texts: empty, a separator in the middle
BadDirectives == {<<>>, <<"a", SEMI, "b">>}

NextTotal ==
    \/ Http
    \/ \E s \in BadDirectives : HttpAddDirective(s)
    \/ \E d \in BadCommon : HttpApplyCommonDirectives(d)
    \/ \E o \in BadCompression : HttpConfigureCompression(o)
    \/ \E o \in BadCache : HttpConfigureCache(o)
    \/ \E d \in BadTyped : ApplyTypedDirectives(d)
    \/ \E p \in BadPorts : HttpAddServer(p, FALSE)
    \/ NginxConfigBuild

SpecTotal == InitNginx /\ [][NextTotal]_vars

----------------------------------------------------------------------------
(* C13 *)

\* s is the beginning of t
isPrefix(s, t) == Len(s) <= Len(t) /\ SubSeq(t, 1, Len(s)) = s

\* the line is one of the lines of the text
hasLine(t, line) == \E i \in 1..Len(splitLines(t)) : splitLines(t)[i] = line

----------------------------------------------------------------------------
(* SpecNested: a program builds an NginxConfig with an events block and an  *)
(* http block, adds servers, adds locations to the first server and         *)
(* directives to its first location, and calls build() at any time.         *)

NextNested ==
    \/ \E u \in Users : User(u)
    \/ Events
    \/ WorkerConnections(1024)
    \/ Http
    \/ \E p \in Ports, ssl \in BOOLEAN : HttpAddServer(p, ssl)
    \/ \E p \in LocationPaths, e \in BOOLEAN : AddLocation(1, p, e)
    \/ LocationRoot(1, 1, <<"/var/www/html">>)
    \/ \E s \in Directives : LocationAddDirective(1, 1, s)
    \/ NginxConfigBuild

SpecNested == InitNginx /\ [][NextNested]_vars

----------------------------------------------------------------------------
(* C14 *)

\* how many lines of the text open a block of that name at the left margin
openings(t, name) ==
    Cardinality({i \in 1..Len(splitLines(t)) :
                    /\ splitLines(t)[i] # <<>>
                    /\ Head(splitLines(t)[i]) = name})

\* C14: an NginxConfig holds at most one events block and at most one http
\* block; events() and http() create the block when there is none and
\* otherwise leave the block, its directives and its children as they are;
\* build() shows each block once when it exists and never twice.
C14_SingletonBlocks ==
    /\ [](Len(eventsBlock) <= 1 /\ Len(httpBlock) <= 1)
    /\ [][Events => /\ eventsBlock = <<>> => eventsBlock' = <<NewEventsBlock>>
                    /\ eventsBlock # <<>> => eventsBlock' = eventsBlock
                    /\ httpBlock' = httpBlock]_vars
    /\ [][Http => /\ httpBlock = <<>> => httpBlock' = <<NewHttpBlock>>
                  /\ httpBlock # <<>> => httpBlock' = httpBlock
                  /\ eventsBlock' = eventsBlock]_vars
    /\ [](out # <<>> =>
            /\ openings(out[1], "events") = Len(eventsBlock)
            /\ openings(out[1], "http") = Len(httpBlock))

\* C14 witness: a document whose events block holds a directive and whose
\* http block holds a server was built, and the text opens one events block
\* and one http block
C14_Witness ==
    /\ out # <<>>
    /\ Len(eventsBlock) = 1
    /\ Len(eventsBlock[1].directives) = 1
    /\ Len(httpBlock) = 1
    /\ Len(httpBlock[1].servers) = 1
    /\ openings(out[1], "events") = 1
    /\ openings(out[1], "http") = 1

----------------------------------------------------------------------------
(* SpecHeap: the same operations on objects held by reference.  heap[r] is  *)
(* the object a reference r names, `new` allocates the next reference, a    *)
(* collection holds the references pushed to it, and ret is the reference   *)
(* the last call returned.  A program may call an operation on any          *)
(* reference it was given, that is on any object of the heap.               *)

MaxObjects == 4     \* objects on the heap, the root included

\* the reference `new` returns
newRef == Len(heap) + 1

\* the kinds of object that extend Block
BlockKinds == {"EventsBlock", "HttpBlock", "ServerBlock", "LocationBlock",
               "UpstreamBlock", "MapBlock", "IfBlock"}

\* the object of a kind, with the fields its constructor sets
Object(kind, fields) == [kind |-> kind, block |-> fields]

isKind(r, kinds) == r \in 1..Len(heap) /\ heap[r].kind \in kinds

\* mutant: the reference is pushed twice
push_twice(collection, r) == Append(Append(collection, r), r)

\* Array.prototype.push of a reference
push(collection, r) == Append(collection, r)

\* NginxConfig.events on the root object
HeapEvents ==
    /\ isKind(1, {"NginxConfig"})
    /\ IF heap[1].eventsBlock = 0
       THEN /\ Len(heap) < MaxObjects
            /\ heap' = Append([heap EXCEPT ![1].eventsBlock = newRef],
                              Object("EventsBlock", NewEventsBlock))
            /\ ret' = newRef
       ELSE /\ heap' = heap
            /\ ret' = heap[1].eventsBlock
    /\ UNCHANGED <<nginxVars, siteVars, httpBlockB, upstream, root, out>>

\* NginxConfig.http on the root object
HeapHttp ==
    /\ isKind(1, {"NginxConfig"})
    /\ IF heap[1].httpBlock = 0
       THEN /\ Len(heap) < MaxObjects
            /\ heap' = Append([heap EXCEPT ![1].httpBlock = newRef],
                              Object("HttpBlock", NewHttpBlock))
            /\ ret' = newRef
       ELSE /\ heap' = heap
            /\ ret' = heap[1].httpBlock
    /\ UNCHANGED <<nginxVars, siteVars, httpBlockB, upstream, root, out>>

\* mutant: addServer returns the block it was called on
HeapHttpAddServer_returnsThis(r, portOrUnix, ssl) ==
    /\ isKind(r, {"HttpBlock"})
    /\ Len(heap) < MaxObjects
    /\ heap' = Append([heap EXCEPT ![r].block.servers = push(@, newRef)],
                      Object("ServerBlock",
                             listen(NewServerBlock, portOrUnix, ssl)))
    /\ ret' = r
    /\ UNCHANGED <<nginxVars, siteVars, httpBlockB, upstream, root, out>>

\* HttpBlock.addServer on the object r
HeapHttpAddServer(r, portOrUnix, ssl) ==
    /\ isKind(r, {"HttpBlock"})
    /\ Len(heap) < MaxObjects
    /\ heap' = Append([heap EXCEPT ![r].block.servers = push(@, newRef)],
                      Object("ServerBlock",
                             listen(NewServerBlock, portOrUnix, ssl)))
    /\ ret' = newRef
    /\ UNCHANGED <<nginxVars, siteVars, httpBlockB, upstream, root, out>>

\* SiteConfig.addServer on the root object
HeapSiteAddServer(portOrUnix, ssl) ==
    /\ isKind(1, {"SiteConfig"})
    /\ Len(heap) < MaxObjects
    /\ heap' = Append([heap EXCEPT ![1].servers = push(@, newRef)],
                      Object("ServerBlock",
                             listen(NewServerBlock, portOrUnix, ssl)))
    /\ ret' = newRef
    /\ UNCHANGED <<nginxVars, siteVars, httpBlockB, upstream, root, out>>

\* HttpBlock.addUpstream on the object r
HeapAddUpstream(r, name) ==
    /\ isKind(r, {"HttpBlock"})
    /\ Len(heap) < MaxObjects
    /\ heap' = Append([heap EXCEPT ![r].block.upstreams = push(@, newRef)],
                      Object("UpstreamBlock", NewUpstreamBlock(name)))
    /\ ret' = newRef
    /\ UNCHANGED <<nginxVars, siteVars, httpBlockB, upstream, root, out>>

\* HttpBlock.addMap on the object r
HeapAddMap(r, variable, outputVar) ==
    /\ isKind(r, {"HttpBlock"})
    /\ Len(heap) < MaxObjects
    /\ heap' = Append([heap EXCEPT ![r].block.maps = push(@, newRef)],
                      Object("MapBlock", NewMapBlock(variable, outputVar)))
    /\ ret' = newRef
    /\ UNCHANGED <<nginxVars, siteVars, httpBlockB, upstream, root, out>>

\* ServerBlock.addLocation on the object r
HeapAddLocation(r, path, exact) ==
    /\ isKind(r, {"ServerBlock"})
    /\ Len(heap) < MaxObjects
    /\ heap' = Append([heap EXCEPT ![r].block.locations = push(@, newRef)],
                      Object("LocationBlock", NewLocationBlock(path, exact)))
    /\ ret' = newRef
    /\ UNCHANGED <<nginxVars, siteVars, httpBlockB, upstream, root, out>>

\* LocationBlock.if on the object r
HeapIf(r, condition) ==
    /\ isKind(r, {"LocationBlock"})
    /\ Len(heap) < MaxObjects
    /\ heap' = Append([heap EXCEPT ![r].block.ifBlocks = push(@, newRef)],
                      Object("IfBlock", NewIfBlock(condition)))
    /\ ret' = newRef
    /\ UNCHANGED <<nginxVars, siteVars, httpBlockB, upstream, root, out>>

\* Block.addDirective on the object r
HeapAddDirective(r, directive) ==
    /\ isKind(r, BlockKinds)
    /\ Len(heap[r].block.directives) < MaxDirs
    /\ heap' = [heap EXCEPT ![r].block.directives = addDirective(@, directive)]
    /\ ret' = r
    /\ UNCHANGED <<nginxVars, siteVars, httpBlockB, upstream, root, out>>

\* LocationBlock.root on the object r: one of the per-directive setters
HeapRoot(r, path) ==
    /\ isKind(r, {"LocationBlock"})
    /\ HeapAddDirective(r, <<"root", SP>> \o path)

\* HttpBlock.applyTypedDirectives on the object r
HeapApplyTypedDirectives(r, d) ==
    /\ isKind(r, {"HttpBlock"})
    /\ heap' = [heap EXCEPT ![r].block.typedDirectives = objectAssign(@, d)]
    /\ ret' = r
    /\ UNCHANGED <<nginxVars, siteVars, httpBlockB, upstream, root, out>>

\* MapBlock.set on the object r
HeapMapSet(r, key, value) ==
    /\ isKind(r, {"MapBlock"})
    /\ Len(heap[r].block.items) < MaxItems
    /\ heap' = [heap EXCEPT ![r].block.items =
                                Append(@, [key |-> key, value |-> value])]
    /\ ret' = r
    /\ UNCHANGED <<nginxVars, siteVars, httpBlockB, upstream, root, out>>

Refs == 1..MaxObjects

NextHeap ==
    \/ HeapEvents
    \/ HeapHttp
    \/ \E r \in Refs, p \in Ports, ssl \in BOOLEAN : HeapHttpAddServer(r, p, ssl)
    \/ \E p \in Ports : HeapSiteAddServer(p, FALSE)
    \/ \E r \in Refs, n \in UpstreamNames : HeapAddUpstream(r, n)
    \/ \E r \in Refs, v \in MapVariables, o \in MapOutputVars :
          HeapAddMap(r, v, o)
    \/ \E r \in Refs, p \in LocationPaths : HeapAddLocation(r, p, FALSE)
    \/ \E r \in Refs, c \in Conditions : HeapIf(r, c)
    \/ \E r \in Refs : HeapAddDirective(r, <<"d">>)
    \/ \E r \in Refs : HeapRoot(r, <<"/var/www/html">>)
    \/ \E r \in Refs, d \in TypedRecords : HeapApplyTypedDirectives(r, d)
    \/ \E r \in Refs, k \in MapKeys, v \in MapValues : HeapMapSet(r, k, v)

SpecHeap == Init /\ [][NextHeap]_vars

----------------------------------------------------------------------------
(* C15 *)

\* the references an object holds to its child blocks, collection by
\* collection
children(o) ==
    CASE o.kind = "NginxConfig" ->
             (IF o.eventsBlock # 0 THEN <<o.eventsBlock>> ELSE <<>>)
                 \o (IF o.httpBlock # 0 THEN <<o.httpBlock>> ELSE <<>>)
      [] o.kind = "SiteConfig" -> o.servers
      [] o.kind = "HttpBlock" ->
             o.block.servers \o o.block.upstreams \o o.block.maps
      [] o.kind = "ServerBlock" -> o.block.locations
      [] o.kind = "LocationBlock" -> o.block.ifBlocks
      [] OTHER -> <<>>

\* the places (parent, position) that hold the reference r
holders(r) ==
    {pi \in UNION {{<<p, i>> : i \in 1..Len(children(heap[p]))} :
                      p \in 1..Len(heap)} :
        children(heap[pi[1]])[pi[2]] = r}

\* following parents from r reaches the root in at most n steps
RECURSIVE reachesRoot(_, _)
reachesRoot(r, n) ==
    \/ r = 1
    \/ /\ n > 0
       /\ \E pi \in holders(r) : reachesRoot(pi[1], n - 1)

\* C15: in every reachable state every block is held at exactly one position
\* of exactly one parent, the root is held by nothing, every reference held
\* names an object, and following parents from any block ends at the root:
\* the parent-child relation is a tree.
C15_OwnershipTree ==
    /\ holders(1) = {}
    /\ \A r \in 2..Len(heap) : Cardinality(holders(r)) = 1
    /\ \A p \in 1..Len(heap) :
           \A i \in 1..Len(children(heap[p])) :
               children(heap[p])[i] \in 2..Len(heap)
    /\ \A r \in 1..Len(heap) : reachesRoot(r, Len(heap))

\* C15 witness: addServer, addLocation and if made a chain three blocks
\* deep under a SiteConfig
C15_Witness ==
    /\ Len(heap) = 4
    /\ heap[1].kind = "SiteConfig"
    /\ heap[1].servers = <<2>>
    /\ heap[2].block.locations = <<3>>
    /\ heap[3].block.ifBlocks = <<4>>

----------------------------------------------------------------------------
(* C16 *)

Last(seq) == seq[Len(seq)]

\* the object r' is new: no reference named it before the call
isNew(r) == r = Len(heap) + 1 /\ Len(heap') = Len(heap) + 1

\* C16: addDirective, the setter root, applyTypedDirectives and MapBlock.set
\* return the block they were called on; addServer, addUpstream, addMap,
\* addLocation and if return a new block that is the last element of the
\* parent's collection; the server addServer(p, ssl) returns holds
\* `listen p`, with ` ssl` when ssl is true, as its first directive.
C16_FluentReturns ==
    [][/\ \A r \in Refs : HeapAddDirective(r, <<"d">>) => ret' = r
       /\ \A r \in Refs : HeapRoot(r, <<"/var/www/html">>) => ret' = r
       /\ \A r \in Refs, d \in TypedRecords :
              HeapApplyTypedDirectives(r, d) => ret' = r
       /\ \A r \in Refs, k \in MapKeys, v \in MapValues :
              HeapMapSet(r, k, v) => ret' = r
       /\ \A r \in Refs, p \in Ports, ssl \in BOOLEAN :
              HeapHttpAddServer(r, p, ssl) =>
                  /\ isNew(ret')
                  /\ ret' = Last(heap'[r].block.servers)
                  /\ heap'[ret'].kind = "ServerBlock"
                  /\ heap'[ret'].block.directives[1] =
                         <<"listen", SP>> \o p
                             \o (IF ssl THEN <<SP, "ssl">> ELSE <<>>)
                             \o <<SEMI>>
       /\ \A p \in Ports :
              HeapSiteAddServer(p, FALSE) =>
                  /\ isNew(ret')
                  /\ ret' = Last(heap'[1].servers)
                  /\ heap'[ret'].kind = "ServerBlock"
                  /\ heap'[ret'].block.directives[1] =
                         <<"listen", SP>> \o p
                             \o <<SEMI>>
       /\ \A r \in Refs, n \in UpstreamNames :
              HeapAddUpstream(r, n) =>
                  /\ isNew(ret')
                  /\ ret' = Last(heap'[r].block.upstreams)
                  /\ heap'[ret'].kind = "UpstreamBlock"
       /\ \A r \in Refs, v \in MapVariables, o \in MapOutputVars :
              HeapAddMap(r, v, o) =>
                  /\ isNew(ret')
                  /\ ret' = Last(heap'[r].block.maps)
                  /\ heap'[ret'].kind = "MapBlock"
       /\ \A r \in Refs, p \in LocationPaths :
              HeapAddLocation(r, p, FALSE) =>
                  /\ isNew(ret')
                  /\ ret' = Last(heap'[r].block.locations)
                  /\ heap'[ret'].kind = "LocationBlock"
       /\ \A r \in Refs, c \in Conditions :
              HeapIf(r, c) =>
                  /\ isNew(ret')
                  /\ ret' = Last(heap'[r].block.ifBlocks)
                  /\ heap'[ret'].kind = "IfBlock"]_vars

\* C16 witness: addServer(80, true) on the http block returned the new
\* server, the second of the block's servers, which holds `listen 80 ssl`
C16_Witness ==
    /\ Len(heap) = 4
    /\ heap[2].kind = "HttpBlock"
    /\ heap[2].block.servers = <<3, 4>>
    /\ ret = 4
    /\ heap[4].block.directives = << <<"listen", SP, "80", SP, "ssl", SEMI>> >>

----------------------------------------------------------------------------
(* C17 *)

\* C17 (as claimed): in the text SiteConfig.build() returns, one empty line
\* stands between the last include directive and the first server block
\* when the document has both, and the text starts with no empty line and
\* holds none after the directives when it has only one of the two.
C17_SiteGroupsSeparated ==
    IsSite /\ out # <<>> =>
        LET lines == splitLines(out[1])
            n == Len(siteDirectives)
        IN  /\ n > 0 /\ siteServers # <<>> =>
                   /\ lines[n + 1] = <<>>
                   /\ lines[n + 2] = <<"server", SP, "{">>
            /\ n > 0 /\ siteServers = <<>> =>
                   lines = siteDirectives \o << <<>> >>
            /\ n = 0 /\ siteServers # <<>> =>
                   lines[1] = <<"server", SP, "{">>

----------------------------------------------------------------------------
(* C18 *)

\* the lines of a text that hold a `root` directive
rootLines(t) ==
    SelectSeq(splitLines(t),
              LAMBDA l : stripIndent(l) # <<>> /\ Head(stripIndent(l)) = "root")

\* C18 (as claimed): in the text NginxConfig.build() returns, a directive of
\* a location of a server of the http block is indented by four levels of
\* four spaces.
C18_FourLevels ==
    out # <<>> =>
        \A i \in 1..Len(rootLines(out[1])) :
            indentOf(rootLines(out[1])[i]) = 4 * Len(Indent4)

\* C18 (amended): in the text NginxConfig.build() returns, a directive of a
\* location of a server of the http block is indented by three levels of
\* four spaces, twelve spaces: the http block is at level 0, the server at
\* level 1, the location at level 2 and its directives at level 3; every
\* directive of every location has its line.
C18_ThreeLevels ==
    out # <<>> =>
        /\ \A i \in 1..Len(rootLines(out[1])) :
               indentOf(rootLines(out[1])[i]) = 3 * Len(Indent4)
        /\ \A i \in 1..Len(Servers) :
               \A j \in 1..Len(Servers[i].locations) :
                   \A k \in 1..Len(Servers[i].locations[j].directives) :
                       hasLine(out[1],
                               Indent4 \o Indent4 \o Indent4
                                   \o Servers[i].locations[j].directives[k])

\* C18 witness: a document whose location holds `root /var/www/html` was
\* built, and the line stands behind twelve spaces
C18_Witness ==
    /\ out # <<>>
    /\ Len(Servers) = 1
    /\ Len(Servers[1].locations) = 1
    /\ Servers[1].locations[1].directives =
         << <<"root", SP, "/var/www/html", SEMI>> >>
    /\ Len(rootLines(out[1])) = 1
    /\ indentOf(rootLines(out[1])[1]) = 12

----------------------------------------------------------------------------
(* SpecTypedValues: a program merges typed options of every kind of value   *)
(* (false, 0, empty text, empty list, undefined) into the http block of an  *)
(* NginxConfig, one record per call, and builds the document.               *)

\* the record the NginxConfig constructor passes for the http defaults: all
\* six keys, undefined where the default was not supplied
constructorRecord(http) ==
    <<Prop("sendfile", get(http, "sendfile")),
      Prop("keepalive_timeout", get(http, "keepalive_timeout")),
      Prop("client_max_body_size", get(http, "client_max_body_size")),
      Prop("default_type", get(http, "default_type")),
      Prop("gzip", get(http, "gzip")),
      Prop("gzip_types", get(http, "gzip_types"))>>

TypedValueRecords ==
    {<<Prop("sendfile", Bool(FALSE))>>,
     <<Prop("sendfile", Undefined)>>,
     <<Prop("keepalive_timeout", Num(0))>>,
     <<Prop("client_max_body_size", Str(<<>>))>>,
     <<Prop("client_max_body_size", Str(<<"10m">>))>>,
     <<Prop("gzip_types", Arr(<<>>))>>,
     <<Prop("gzip_types", Arr(<< <<"text/css">>, <<"text/plain">> >>))>>,
     <<Prop("tcp_nodelay", Bool(TRUE))>>,
     constructorRecord(<<Prop("gzip", Bool(TRUE))>>)}

NextTypedValues ==
    \/ Http
    \/ \E d \in TypedValueRecords : ApplyTypedDirectives(d)
    \/ NginxConfigBuild

SpecTypedValues == InitNginx /\ [][NextTypedValues]_vars

----------------------------------------------------------------------------
(* C19 *)

SchemaOrder == <<"sendfile", "keepalive_timeout", "client_max_body_size",
                 "default_type", "gzip", "gzip_types", "tcp_nopush",
                 "tcp_nodelay">>

\* the typed-option lines of a built text, without their indentation
typedLines(t) ==
    LET lines == splitLines(t)
        isTyped(l) == /\ indentOf(l) = Len(Indent4)
                      /\ \E k \in 1..Len(SchemaOrder) :
                             Head(stripIndent(l)) = SchemaOrder[k]
    IN  [i \in 1..Len(SelectSeq(lines, isTyped)) |->
            stripIndent(SelectSeq(lines, isTyped)[i])]

\* C19 (as claimed): the typed-option lines of the built http block are, in
\* schema order, one line for every option the record holds a value for,
\* false, 0, the empty text and the empty list included.
C19_EveryPresentOptionOneLine ==
    out # <<>> /\ httpBlock # <<>> =>
        LET present(key, v) == v # Undefined
            expected ==
                SelectSeq(SchemaOrder,
                          LAMBDA k : present(k, get(httpBlock[1].typedDirectives, k)))
            lines == typedLines(out[1])
        IN  /\ Len(lines) = Len(expected)
            /\ \A i \in 1..Len(lines) : Head(lines[i]) = expected[i]

\* C19 (amended): the typed-option lines of the built http block are, in
\* schema order, one line for every flag (sendfile, gzip, tcp_nopush,
\* tcp_nodelay) that holds true or false, for keepalive_timeout when it
\* holds a number (0 included), for client_max_body_size and default_type
\* when they hold a text that is not empty, and for gzip_types when it holds
\* a list that is not empty; an option that is absent, undefined, the empty
\* text or the empty list has no line.
C19_TypedLinesInSchemaOrder ==
    out # <<>> /\ httpBlock # <<>> =>
        LET rendered(key, v) ==
                CASE key \in {"sendfile", "gzip", "tcp_nopush", "tcp_nodelay"} ->
                         v.type = "boolean"
                  [] key = "keepalive_timeout" -> v.type = "number"
                  [] key \in {"client_max_body_size", "default_type"} ->
                         v.type = "string" /\ v.v # <<>>
                  [] OTHER -> v.type = "array" /\ v.v # <<>>
            value(key) ==
                LET v == get(httpBlock[1].typedDirectives, key)
                IN  CASE v.type = "boolean" ->
                             IF v.v THEN <<"on">> ELSE <<"off">>
                      [] v.type = "number" -> <<ToString(v.v)>>
                      [] v.type = "string" -> v.v
                      [] OTHER -> join(v.v, <<SP>>)
            expected ==
                SelectSeq(SchemaOrder,
                          LAMBDA k : rendered(k, get(httpBlock[1].typedDirectives, k)))
            lines == typedLines(out[1])
        IN  /\ Len(lines) = Len(expected)
            /\ \A i \in 1..Len(lines) :
                   lines[i] = <<expected[i], SP>> \o value(expected[i])
                                  \o <<SEMI>>

\* C19 witness: tcp_nodelay, an empty gzip_types, keepalive_timeout 0, an
\* empty client_max_body_size and sendfile false were merged in that order
\* and the document was built: three lines, in schema order
C19_Witness ==
    /\ httpBlock # <<>>
    /\ [i \in 1..Len(httpBlock[1].typedDirectives) |->
           httpBlock[1].typedDirectives[i].key]
         = <<"tcp_nodelay", "gzip_types", "keepalive_timeout",
             "client_max_body_size", "sendfile">>
    /\ get(httpBlock[1].typedDirectives, "gzip_types") = Arr(<<>>)
    /\ get(httpBlock[1].typedDirectives, "client_max_body_size") = Str(<<>>)
    /\ get(httpBlock[1].typedDirectives, "sendfile") = Bool(FALSE)
    /\ out = << <<"http", SP, "{", NL,
                  SP, SP, SP, SP, "sendfile", SP, "off", SEMI, NL,
                  SP, SP, SP, SP, "keepalive_timeout", SP, "0", SEMI, NL,
                  SP, SP, SP, SP, "tcp_nodelay", SP, "on", SEMI, NL,
                  "}", NL>> >>

----------------------------------------------------------------------------
(* C20 *)

\* C20 (as claimed): applyTypedDirectives(d) leaves every option that d
\* gives no value to, by omitting it or by holding undefined for it, with
\* the value it had, so an option that had a value still has one.
C20_MergeOnly ==
    [][\A d \in TypedValueRecords :
          ApplyTypedDirectives(d) =>
              \A k \in 1..Len(SchemaOrder) :
                  get(d, SchemaOrder[k]) = Undefined =>
                      get(httpBlock'[1].typedDirectives, SchemaOrder[k])
                        = get(httpBlock[1].typedDirectives, SchemaOrder[k])]_vars

----------------------------------------------------------------------------
(* SpecOptions: a program calls the three option helpers on the http block  *)
(* of an NginxConfig with records whose keys come in different orders and   *)
(* with different keys present, and builds the document.                    *)

\* CommonDirectives records: every checked field in interface order and in
\* the opposite order, two fields both ways round, single fields, and
\* fields of the interface that applyCommonDirectives does not test
CommonRecords ==
    LET accessLog == Prop("accessLog",
                          Obj(<<Prop("path", Str(<<"/var/log/access.log">>)),
                                Prop("format", Str(<<"main">>))>>))
        errorLog == Prop("errorLog",
                         Obj(<<Prop("path", Str(<<"/var/log/error.log">>))>>))
        clientMaxBodySize == Prop("clientMaxBodySize", Str(<<"10m">>))
        sendTimeout == Prop("sendTimeout", Str(<<"60s">>))
        sendfile == Prop("sendfile", Bool(TRUE))
        tcp_nopush == Prop("tcp_nopush", Bool(FALSE))
        tcp_nodelay == Prop("tcp_nodelay", Bool(TRUE))
    IN  {<<accessLog, errorLog, clientMaxBodySize, sendTimeout, sendfile,
           tcp_nopush, tcp_nodelay>>,
         <<tcp_nodelay, tcp_nopush, sendfile, sendTimeout, clientMaxBodySize,
           errorLog, accessLog>>,
         <<Prop("accessLog", Str(<<"off">>)), tcp_nodelay>>,
         <<tcp_nodelay, Prop("accessLog", Str(<<"off">>))>>,
         <<sendfile>>,
         <<clientMaxBodySize>>,
         <<Prop("keepaliveTimeout", Num(65)), Prop("expires", Str(<<"30d">>)),
           sendTimeout>>}

\* CompressionOptions records, in the same way
CompressionRecords ==
    LET enable == Prop("enable", Bool(TRUE))
        minLength == Prop("minLength", Str(<<"256">>))
        types == Prop("types", Arr(<< <<"text/css">>, <<"text/plain">> >>))
        proxied == Prop("proxied", Str(<<"any">>))
        vary == Prop("vary", Bool(TRUE))
        level == Prop("level", Num(6))
        buffers == Prop("buffers", Obj(<<Prop("number", Num(16)),
                                         Prop("size", Str(<<"8k">>))>>))
    IN  {<<enable, minLength, types, proxied, vary, level, buffers>>,
         <<buffers, level, vary, proxied, types, minLength, enable>>,
         <<level, enable>>,
         <<enable, level>>,
         <<enable>>,
         <<vary>>}

\* CacheOptions records, in the same way, and a size and a time without
\* a path
CacheRecords ==
    LET path == Prop("path", Str(<<"/var/cache/nginx">>))
        maxSize == Prop("maxSize", Str(<<"1g">>))
        inactiveTime == Prop("inactiveTime", Str(<<"60m">>))
        validTime == Prop("validTime", Str(<<"10m">>))
        useStale == Prop("useStale", Arr(<< <<"error">>, <<"timeout">> >>))
        key == Prop("key", Str(<<"$uri">>))
    IN  {<<path, maxSize, inactiveTime, validTime, useStale, key>>,
         <<key, useStale, validTime, inactiveTime, maxSize, path>>,
         <<key, validTime>>,
         <<validTime, key>>,
         <<key>>,
         <<validTime>>,
         <<maxSize, inactiveTime>>}

NextOptions ==
    \/ Http
    \/ \E d \in CommonRecords : HttpApplyCommonDirectives(d)
    \/ \E o \in CompressionRecords : HttpConfigureCompression(o)
    \/ \E o \in CacheRecords : HttpConfigureCache(o)
    \/ NginxConfigBuild

SpecOptions == InitNginx /\ [][NextOptions]_vars

----------------------------------------------------------------------------
(* C21 *)

CommonOrder ==
    <<"access_log", "error_log", "client_max_body_size", "send_timeout",
      "sendfile", "tcp_nopush", "tcp_nodelay">>

CompressionOrder ==
    <<"gzip", "gzip_min_length", "gzip_types", "gzip_proxied", "gzip_vary",
      "gzip_comp_level", "gzip_buffers">>

CacheOrder ==
    <<"proxy_cache_path", "proxy_cache_valid", "proxy_cache_use_stale",
      "proxy_cache_key">>

\* the entries a call added to a store
added(old, new) == SubSeq(new, Len(old) + 1, Len(new))

\* the directive names of a sequence of directives
directiveNames(directives) ==
    [i \in 1..Len(directives) |-> directives[i][1]]

\* the names all come from the list and stand in the order of the list
inListOrder(names, order) ==
    /\ \A i \in 1..Len(names) : \E k \in 1..Len(order) : order[k] = names[i]
    /\ \A i, j \in 1..Len(names) :
           i < j => \E k, l \in 1..Len(order) :
                        k < l /\ order[k] = names[i] /\ order[l] = names[j]

\* two records hold the same fields, whatever the order of their keys
sameFields(a, b) ==
    /\ Len(a) = Len(b)
    /\ {a[i] : i \in 1..Len(a)} = {b[i] : i \in 1..Len(b)}

\* C21: each option helper only appends, the names of the directives it
\* appends stand in the fixed field-check order of that helper whichever
\* keys the record holds, and a record holding the same fields under
\* another key order yields the same directive sequence
C21_FixedFieldOrder ==
    [][/\ httpBlock # <<>> /\ httpBlock' # <<>>
       => LET old == httpBlock[1].directives
              new == httpBlock'[1].directives
          IN  /\ \A d \in CommonRecords :
                     HttpApplyCommonDirectives(d) =>
                         /\ isPrefix(old, new)
                         /\ inListOrder(directiveNames(added(old, new)),
                                        CommonOrder)
                         /\ \A e \in CommonRecords :
                                sameFields(d, e)
                                    => applyCommonDirectives(old, e) = new
              /\ \A o \in CompressionRecords :
                     HttpConfigureCompression(o) =>
                         /\ isPrefix(old, new)
                         /\ inListOrder(directiveNames(added(old, new)),
                                        CompressionOrder)
                         /\ \A e \in CompressionRecords :
                                sameFields(o, e)
                                    => configureCompression(old, e) = new
              /\ \A o \in CacheRecords :
                     HttpConfigureCache(o) =>
                         /\ isPrefix(old, new)
                         /\ inListOrder(directiveNames(added(old, new)),
                                        CacheOrder)
                         /\ \A e \in CacheRecords :
                                sameFields(o, e)
                                    => configureCache(old, e) = new]_vars

\* C21 witness: after `gzip on`, a record with every common field was
\* applied and its seven directives stand in the fixed order; the document
\* was built
C21_Witness ==
    /\ out # <<>>
    /\ httpBlock # <<>>
    /\ directiveNames(httpBlock[1].directives) = <<"gzip">> \o CommonOrder
    /\ httpBlock[1].directives[2] =
           <<"access_log", SP, "/var/log/access.log", SP, "main", SEMI>>
    /\ httpBlock[1].directives[8] = <<"tcp_nodelay", SP, "on", SEMI>>

----------------------------------------------------------------------------
(* SpecLocation: a program adds a server to a SiteConfig, gives it a        *)
(* directive and prefix or exact locations, fills the first location with   *)
(* directives and if-blocks, and calls build() at any time.                 *)

InitSite == Init /\ IsSite

ApiPaths == {<<"/">>, <<"/api">>}

NextLocation ==
    \/ \E p \in Ports : SiteAddServer(p, FALSE)
    \/ \E s \in Directives : ServerAddDirective(1, s)
    \/ \E p \in ApiPaths, e \in BOOLEAN : AddLocation(1, p, e)
    \/ \E s \in Directives : LocationAddDirective(1, 1, s)
    \/ LocationRoot(1, 1, <<"/var/www/html">>)
    \/ \E c \in Conditions : LocationIf(1, 1, c)
    \/ \E s \in Directives : IfAddDirective(1, 1, 1, s)
    \/ SiteConfigBuild

SpecLocation == InitSite /\ [][NextLocation]_vars

----------------------------------------------------------------------------
(* C22 *)

\* the other LocationBlock with the same path, directives and if-blocks
otherMatch(loc) == [loc EXCEPT !.exact = ~loc.exact]

\* the locations of every server of the document
AllLocations ==
    UNION {{Servers[i].locations[j] : j \in 1..Len(Servers[i].locations)}
           : i \in 1..Len(Servers)}

\* lines m..n of the text hold the given lines
hasLinesAt(t, m, lines) ==
    /\ m + Len(lines) - 1 <= Len(splitLines(t))
    /\ \A n \in 1..Len(lines) : splitLines(t)[m + n - 1] = lines[n]

\* C22: for every location of the document, its build and the build of the
\* location with the same path, directives and if-blocks but the other
\* match flag have the same number of lines, differ in the first line and
\* agree on every other line; the built document holds these lines
C22_ExactChangesOpeningLineOnly ==
    \A loc \in AllLocations :
        LET a == splitLines(LocationBlock_build(loc, Indent4))
            b == splitLines(LocationBlock_build(otherMatch(loc), Indent4))
        IN  /\ Len(a) = Len(b)
            /\ a[1] # b[1]
            /\ \A n \in 2..Len(a) : a[n] = b[n]
            /\ out # <<>> =>
                   \E m \in 1..Len(splitLines(out[1])) :
                       hasLinesAt(out[1], m, a)

\* C22 witness: an exact-match location with a directive and an if-block
\* that holds a directive was built
C22_Witness ==
    /\ out # <<>>
    /\ Len(Servers) = 1
    /\ Len(Servers[1].locations) = 1
    /\ Servers[1].locations[1].exact
    /\ Servers[1].locations[1].path = <<"/api">>
    /\ Len(Servers[1].locations[1].directives) = 1
    /\ Len(Servers[1].locations[1].ifBlocks) = 1
    /\ Len(Servers[1].locations[1].ifBlocks[1].directives) = 1
    /\ hasLine(out[1], Indent4 \o <<"location", SP, "=", SP, "/api", SP, "{">>)

----------------------------------------------------------------------------
(* C23 *)

\* C23: in a built document every prefix-match location has the opening
\* line `location <path> {` with exactly one space between the keyword and
\* the path
C23_PrefixOpeningOneSpace ==
    out # <<>> =>
        \A loc \in AllLocations :
            ~loc.exact =>
                hasLine(out[1], Indent4 \o <<"location", SP>> \o loc.path
                                    \o <<SP, "{">>)

----------------------------------------------------------------------------
(* C26 *)

\* the number of blank lines of a text
blankLines(t) ==
    Cardinality({n \in 1..Len(splitLines(t)) : splitLines(t)[n] = <<>>})

\* the blank lines a block has for its own groups: one between its
\* directives and its children when it has both, one between two children
groupBlankLines(directives, blocks) ==
    (IF directives # <<>> /\ blocks # <<>> THEN 1 ELSE 0)
        + (IF blocks # <<>> THEN Len(blocks) - 1 ELSE 0)

RECURSIVE sumOver(_, _)
sumOver(f, n) == IF n = 0 THEN 0 ELSE f[n] + sumOver(f, n - 1)

\* C26: a built location has a blank line between its directives and its
\* if-blocks only when it has both, and a built server between its
\* directives and its locations only when it has both; in a built server
\* no blank line directly follows an opening line and no two blank lines
\* follow each other
C26_BlankLineOnlyBetweenGroups ==
    /\ \A loc \in AllLocations :
           blankLines(LocationBlock_build(loc, <<>>))
               = groupBlankLines(loc.directives, loc.ifBlocks)
    /\ \A i \in 1..Len(Servers) :
           blankLines(ServerBlock_build(Servers[i], <<>>))
               = groupBlankLines(Servers[i].directives, Servers[i].locations)
                   + sumOver([j \in 1..Len(Servers[i].locations) |->
                                 groupBlankLines(
                                     Servers[i].locations[j].directives,
                                     Servers[i].locations[j].ifBlocks)],
                             Len(Servers[i].locations))
    /\ \A i \in 1..Len(Servers) :
           LET lines == splitLines(ServerBlock_build(Servers[i], <<>>))
           IN  \A n \in 1..(Len(lines) - 1) :
                   /\ endsWith(lines[n], "{") => lines[n + 1] # <<>>
                   /\ ~(lines[n] = <<>> /\ lines[n + 1] = <<>>)

----------------------------------------------------------------------------
(* SpecAppend: a program builds an NginxConfig with an events block, an     *)
(* http block with typed options, a server and a location, appends          *)
(* directives to each of them through addDirective and through an option    *)
(* helper, and calls build() at any time.                                   *)

NextAppend ==
    \/ Events
    \/ Http
    \/ \E s \in Directives : EventsAddDirective(s)
    \/ \E s \in Directives : HttpAddDirective(s)
    \/ HttpConfigureCompression(<<Prop("enable", Bool(TRUE))>>)
    \/ \E d \in TypedRecords : ApplyTypedDirectives(d)
    \/ \E p \in Ports : HttpAddServer(p, FALSE)
    \/ \E s \in Directives : ServerAddDirective(1, s)
    \/ \E p \in LocationPaths : AddLocation(1, p, FALSE)
    \/ \E s \in Directives : LocationAddDirective(1, 1, s)
    \/ NginxConfigBuild

SpecAppend == InitNginx /\ [][NextAppend]_vars

----------------------------------------------------------------------------
(* C24 *)

\* the store grew by exactly one entry, the text given, placed at the end
grewByOne(old, new, directive) ==
    /\ Len(new) = Len(old) + 1
    /\ isPrefix(old, new)
    /\ isPrefix(directive, new[Len(new)])

\* an optional block that is present keeps its stored directives
keptOptional(old, new) ==
    old # <<>> => /\ new # <<>>
                  /\ isPrefix(old[1].directives, new[1].directives)

\* every server and location that is present keeps its stored directives
keptServers(old, new) ==
    /\ Len(old) <= Len(new)
    /\ \A i \in 1..Len(old) :
           /\ isPrefix(old[i].directives, new[i].directives)
           /\ Len(old[i].locations) <= Len(new[i].locations)
           /\ \A j \in 1..Len(old[i].locations) :
                  isPrefix(old[i].locations[j].directives,
                           new[i].locations[j].directives)

\* C24: no step removes or rewrites a stored directive of any block; one
\* addDirective call on the events block, the http block, a server or a
\* location grows that block's store by one entry at the end and leaves
\* the top-level slots, the typed options, the child collections and the
\* stores of every other block as they were
C24_AppendOnly ==
    [][/\ keptOptional(eventsBlock, eventsBlock')
       /\ keptOptional(httpBlock, httpBlock')
       /\ keptServers(Servers, Servers')
       /\ \A s \in Directives :
              /\ EventsAddDirective(s) =>
                     /\ grewByOne(eventsBlock[1].directives,
                                  eventsBlock'[1].directives, s)
                     /\ httpBlock' = httpBlock
              /\ HttpAddDirective(s) =>
                     /\ grewByOne(httpBlock[1].directives,
                                  httpBlock'[1].directives, s)
                     /\ httpBlock'[1].typedDirectives
                            = httpBlock[1].typedDirectives
                     /\ Servers' = Servers
                     /\ eventsBlock' = eventsBlock
              /\ ServerAddDirective(1, s) =>
                     /\ grewByOne(Servers[1].directives,
                                  Servers'[1].directives, s)
                     /\ Servers'[1].locations = Servers[1].locations
                     /\ httpBlock'[1].directives = httpBlock[1].directives
                     /\ httpBlock'[1].typedDirectives
                            = httpBlock[1].typedDirectives
                     /\ eventsBlock' = eventsBlock
              /\ LocationAddDirective(1, 1, s) =>
                     /\ grewByOne(Servers[1].locations[1].directives,
                                  Servers'[1].locations[1].directives, s)
                     /\ Servers'[1].directives = Servers[1].directives
                     /\ httpBlock'[1].directives = httpBlock[1].directives
                     /\ httpBlock'[1].typedDirectives
                            = httpBlock[1].typedDirectives
                     /\ eventsBlock' = eventsBlock
       /\ (\E s \in Directives :
              \/ EventsAddDirective(s) \/ HttpAddDirective(s)
              \/ ServerAddDirective(1, s) \/ LocationAddDirective(1, 1, s))
          => /\ Len(Servers') = Len(Servers)
             /\ httpBlock # <<>> =>
                    /\ httpBlock'[1].upstreams = httpBlock[1].upstreams
                    /\ httpBlock'[1].maps = httpBlock[1].maps
             /\ <<userDirective, workerProcessesDirective, pidDirective>>'
                    = <<userDirective, workerProcessesDirective,
                        pidDirective>>]_vars

\* C24 witness: the http block holds typed options, a directive with
\* `gzip on` appended behind it, and a server whose store grew behind
\* `listen`; the
\* events block and the location hold a directive each
C24_Witness ==
    /\ eventsBlock # <<>> /\ httpBlock # <<>>
    /\ eventsBlock[1].directives = << <<"d", SEMI>> >>
    /\ httpBlock[1].directives = << <<"d", SEMI>>, <<"gzip", SP, "on", SEMI>> >>
    /\ httpBlock[1].typedDirectives # <<>>
    /\ Len(Servers) = 1
    /\ Servers[1].directives = << <<"listen", SP, "80", SEMI>>, <<"d", SEMI>> >>
    /\ Len(Servers[1].locations) = 1
    /\ Servers[1].locations[1].directives = << <<"d", SEMI>> >>

----------------------------------------------------------------------------
(* Records and lists of the calling program. Object.assign copies the       *)
(* properties of the caller's record one by one, so a list inside the       *)
(* record is stored by reference: the HttpBlock and the caller hold the     *)
(* same list object. The caller's objects live on the heap next to the      *)
(* root; a typed value [type |-> "ref"] names one of them.                  *)

MaxTypes == 2       \* entries of a gzip_types list of the caller

Ref(r) == [type |-> "ref", v |-> r]

\* `const d = { sendfile: ..., gzip_types: [...] }` in the calling program:
\* the list object, then the record that refers to it
CallerRecord(sendfile, types) ==
    /\ Len(heap) + 2 <= MaxObjects
    /\ heap' = heap \o <<[kind |-> "Array", items |-> types],
                         [kind |-> "Object",
                          props |-> <<Prop("sendfile", Bool(sendfile)),
                                      Prop("gzip_types", Ref(newRef))>>]>>
    /\ ret' = newRef + 1
    /\ UNCHANGED <<nginxVars, siteVars, httpBlockB, upstream, root, out>>

\* `d.key = value` in the calling program
CallerAssign(r, key, value) ==
    /\ isKind(r, {"Object"})
    /\ heap' = [heap EXCEPT ![r].props = setProp(@, key, value)]
    /\ ret' = r
    /\ UNCHANGED <<nginxVars, siteVars, httpBlockB, upstream, root, out>>

\* `d.gzip_types.push(item)` in the calling program
CallerPush(r, item) ==
    /\ isKind(r, {"Array"})
    /\ Len(heap[r].items) < MaxTypes
    /\ heap' = [heap EXCEPT ![r].items = Append(@, item)]
    /\ ret' = r
    /\ UNCHANGED <<nginxVars, siteVars, httpBlockB, upstream, root, out>>

\* HttpBlock.applyTypedDirectives(d) with the caller's record r
ApplyTypedDirectivesOf(r) ==
    /\ isKind(r, {"Object"})
    /\ ApplyTypedDirectives(heap[r].props)

\* the same on the HttpBlock of the second NginxConfig
ApplyTypedDirectivesBOf(r) ==
    /\ isKind(r, {"Object"})
    /\ ApplyTypedDirectivesB(heap[r].props)

\* the typed options as buildTypedDirectives reads them: a list held by
\* reference has the contents the list object has among the objects now
resolved(h, objects) ==
    [h EXCEPT !.typedDirectives =
        [i \in 1..Len(@) |->
            IF @[i].value.type = "ref"
            THEN Prop(@[i].key, Arr(objects[@[i].value.v].items))
            ELSE @[i]]]

\* HttpBlock.build on the HttpBlock of the first NginxConfig
HttpBlockBuild ==
    /\ httpBlock # <<>>
    /\ out' = <<HttpBlock_build(resolved(httpBlock[1], heap), <<>>)>>
    /\ UNCHANGED <<nginxVars, siteVars, otherVars>>

\* HttpBlock.build on the HttpBlock of the second NginxConfig
HttpBlockBuildB ==
    /\ out' = <<HttpBlock_build(resolved(httpBlockB, heap), <<>>)>>
    /\ UNCHANGED <<nginxVars, siteVars, otherVars>>

CallerTypes == {<< <<"text/css">> >>}

----------------------------------------------------------------------------
(* SpecShared: a program constructs the http blocks of two NginxConfig      *)
(* documents in any interleaving, passing typed options by value and        *)
(* passing one record of its own to both, and builds either at any time.    *)

NextShared ==
    \/ Http
    \/ \E t \in CallerTypes : CallerRecord(FALSE, t)
    \/ \E s \in Directives : HttpAddDirective(s)
    \/ \E p \in Ports : HttpAddServer(p, FALSE)
    \/ \E d \in TypedRecords : ApplyTypedDirectives(d)
    \/ \E d \in TypedRecords : ApplyTypedDirectivesB(d)
    \/ \E r \in Refs : ApplyTypedDirectivesOf(r)
    \/ \E r \in Refs : ApplyTypedDirectivesBOf(r)
    \/ HttpBlockBuild
    \/ HttpBlockBuildB

SpecShared == InitNginx /\ [][NextShared]_vars

----------------------------------------------------------------------------
(* C25 *)

\* what build() of an optional http block returns, given the objects
builtText(http, objects) ==
    IF http = <<>> THEN <<>>
    ELSE HttpBlock_build(resolved(http[1], objects), <<>>)

\* what build() of the first document's http block returns in a state
textA == builtText(httpBlock, heap)

\* what build() of the second document's http block returns in a state
textB == builtText(<<httpBlockB>>, heap)

\* the step leaves the build() output of the first document as it was
sameTextA == builtText(httpBlock', heap') = builtText(httpBlock, heap)

\* the step leaves the build() output of the second document as it was
sameTextB ==
    builtText(<<httpBlockB'>>, heap') = builtText(<<httpBlockB>>, heap)

\* C25: in every interleaving of construction operations on two documents
\* an operation on one document leaves the build() output of the other as
\* it was, also when both were given the same record of the caller, and a
\* build() changes neither; so each output is the one the document's own
\* operations produce alone
C25_NoSharedState ==
    [][/\ (\/ Http
           \/ \E s \in Directives : HttpAddDirective(s)
           \/ \E p \in Ports : HttpAddServer(p, FALSE)
           \/ \E d \in TypedRecords : ApplyTypedDirectives(d)
           \/ \E r \in Refs : ApplyTypedDirectivesOf(r))
          => /\ sameTextB
             /\ httpBlockB' = httpBlockB
       /\ (\/ \E d \in TypedRecords : ApplyTypedDirectivesB(d)
           \/ \E r \in Refs : ApplyTypedDirectivesBOf(r))
          => /\ sameTextA
             /\ httpBlock' = httpBlock
       /\ (\/ HttpBlockBuild
           \/ HttpBlockBuildB
           \/ \E t \in CallerTypes : CallerRecord(FALSE, t))
          => /\ sameTextA
             /\ sameTextB]_vars

\* C25 witness: both documents were given the caller's record, the first
\* has a directive and a server besides, and the second was built last
C25_Witness ==
    /\ httpBlock # <<>>
    /\ get(httpBlock[1].typedDirectives, "gzip_types") = Ref(2)
    /\ get(httpBlockB.typedDirectives, "gzip_types") = Ref(2)
    /\ Len(httpBlock[1].directives) = 1
    /\ Len(httpBlock[1].servers) = 1
    /\ out = <<textB>>
    /\ textA # textB
    /\ hasLine(textB, Indent4 \o <<"gzip_types", SP, "text/css", SEMI>>)

----------------------------------------------------------------------------
(* SpecCaller: the same program also changes its own record and its own     *)
(* list after it has passed them to applyTypedDirectives.                   *)

NextCaller ==
    \/ NextShared
    \/ \E r \in Refs : CallerAssign(r, "sendfile", Bool(TRUE))
    \/ \E r \in Refs : CallerPush(r, <<"text/plain">>)

SpecCaller == InitNginx /\ [][NextCaller]_vars

----------------------------------------------------------------------------
(* C29 *)

\* C29: a change the caller makes to its record d, or to the gzip_types
\* list inside d, after applyTypedDirectives(d) returned changes the
\* build() output of no HttpBlock, so a record applied to two HttpBlocks
\* never makes one later change visible in both
C29_CallerChangeInvisible ==
    [][(\/ \E r \in Refs : CallerAssign(r, "sendfile", Bool(TRUE))
        \/ \E r \in Refs : CallerPush(r, <<"text/plain">>))
       => /\ sameTextA
          /\ sameTextB]_vars

----------------------------------------------------------------------------
(* SpecMap: a program adds map blocks to the http block of an NginxConfig,  *)
(* sets pairs on the first of them, the same key more than once, and        *)
(* builds the document.                                                     *)

NextMap ==
    \/ Http
    \/ \E s \in Directives : HttpAddDirective(s)
    \/ \E v \in MapVariables, o \in MapOutputVars : AddMap(v, o)
    \/ \E k \in {<<"default">>, <<"/old">>}, v \in {<<"0">>, <<"1">>} :
          MapSet(1, k, v)
    \/ \E s \in Directives : MapAddDirective(1, s)
    \/ NginxConfigBuild

SpecMap == InitNginx /\ [][NextMap]_vars

----------------------------------------------------------------------------
(* C27 *)

\* C27: a built map block has the opening line `map <variable> <outputVar>
\* {` with both constructor arguments, the closing brace as its last line,
\* and between them one line `key value;` for each set call, in call
\* order, a key set twice giving two lines; a map with no pair has no
\* `key value;` line. The built document holds these lines.
C27_MapLines ==
    httpBlock # <<>> =>
        \A i \in 1..Len(httpBlock[1].maps) :
            LET m == httpBlock[1].maps[i]
                lines == splitLines(MapBlock_build(m, Indent4))
                n == Len(m.items)
            IN  /\ lines[1] = Indent4 \o <<"map", SP>> \o m.variable \o <<SP>>
                                  \o m.outputVar \o <<SP, "{">>
                /\ lines[Len(lines)] = Indent4 \o <<"}">>
                /\ n > 0 =>
                       /\ Len(lines) = n + 2
                       /\ \A k \in 1..n :
                              stripIndent(lines[k + 1]) =
                                  m.items[k].key \o <<SP>> \o m.items[k].value
                                      \o <<SEMI>>
                /\ n = 0 => \A k \in 2..(Len(lines) - 1) : lines[k] = <<>>
                /\ out # <<>> =>
                       \E k \in 1..Len(splitLines(out[1])) :
                           hasLinesAt(out[1], k, lines)

\* C27 witness: the key `default` was set twice with different values and
\* the built document shows both lines in call order
C27_Witness ==
    /\ out # <<>>
    /\ httpBlock # <<>>
    /\ Len(httpBlock[1].maps) = 1
    /\ httpBlock[1].maps[1].items =
           <<[key |-> <<"default">>, value |-> <<"0">>],
             [key |-> <<"default">>, value |-> <<"1">>]>>
    /\ \E k \in 1..Len(splitLines(out[1])) :
           /\ stripIndent(splitLines(out[1])[k])
                  = <<"map", SP, "$uri", SP, "$new", SP, "{">>
           /\ stripIndent(splitLines(out[1])[k + 1])
                  = <<"default", SP, "0", SEMI>>
           /\ stripIndent(splitLines(out[1])[k + 2])
                  = <<"default", SP, "1", SEMI>>
           /\ stripIndent(splitLines(out[1])[k + 3]) = <<"}">>

----------------------------------------------------------------------------
(* SpecTop: a program calls user, workerProcesses, pid, events and http of  *)
(* an NginxConfig in any order and any number of times, with different      *)
(* values, and builds the document.                                         *)

NextTop ==
    \/ \E u \in {<<"nginx">>, <<"www-data">>} : User(u)
    \/ \E v \in {<<"auto">>, numText(4)} : WorkerProcesses(v)
    \/ \E p \in PidPaths : Pid(p)
    \/ Events
    \/ WorkerConnections(1024)
    \/ Http
    \/ NginxConfigBuild

SpecTop == InitNginx /\ [][NextTop]_vars

----------------------------------------------------------------------------
(* C28 *)

\* the numbers of the lines that begin a top-level part of the text
partStarts(lines) ==
    SelectSeq([n \in 1..Len(lines) |-> n],
              LAMBDA n : lines[n] # <<>> /\ lines[n][1] \notin {SP, "}"})

\* the parts a document holds, by name, in the order of NginxConfig.build
presentParts ==
    (IF userDirective # <<>> THEN <<"user">> ELSE <<>>)
        \o (IF workerProcessesDirective # <<>> THEN <<"worker_processes">>
            ELSE <<>>)
        \o (IF pidDirective # <<>> THEN <<"pid">> ELSE <<>>)
        \o (IF eventsBlock # <<>> THEN <<"events">> ELSE <<>>)
        \o (IF httpBlock # <<>> THEN <<"http">> ELSE <<>>)

\* C28: user, workerProcesses and pid each overwrite their slot with the
\* value of the call, whatever it held; build() emits the parts that are
\* present once each in the order user, worker_processes, pid, events,
\* http, the three directives as the slots hold them, and every part but
\* the first follows exactly one blank line
C28_OneSlotPerDirective ==
    [][/\ \A u \in {<<"nginx">>, <<"www-data">>} :
              User(u) => userDirective' = << <<"user", SP>> \o u \o <<SEMI>> >>
       /\ \A v \in {<<"auto">>, numText(4)} :
              WorkerProcesses(v) =>
                  workerProcessesDirective'
                      = << <<"worker_processes", SP>> \o v \o <<SEMI>> >>
       /\ \A p \in PidPaths :
              Pid(p) => pidDirective' = << <<"pid", SP>> \o p \o <<SEMI>> >>
       /\ NginxConfigBuild =>
              LET lines == splitLines(out'[1])
                  starts == partStarts(lines)
              IN  /\ [k \in 1..Len(starts) |-> lines[starts[k]][1]]
                         = presentParts
                  /\ \A k \in 1..Len(starts) :
                         /\ presentParts[k] = "user"
                                => lines[starts[k]] = userDirective[1]
                         /\ presentParts[k] = "worker_processes"
                                => lines[starts[k]] = workerProcessesDirective[1]
                         /\ presentParts[k] = "pid"
                                => lines[starts[k]] = pidDirective[1]
                         /\ k > 1 => /\ lines[starts[k] - 1] = <<>>
                                     /\ lines[starts[k] - 2] # <<>>
                  /\ presentParts # <<>> => starts[1] = 1]_vars

\* C28 witness: all five parts are present, http and events were requested
\* before the directives, the user is the one of the second call, and the
\* document was built
C28_Witness ==
    /\ out # <<>>
    /\ presentParts = <<"user", "worker_processes", "pid", "events", "http">>
    /\ userDirective = << <<"user", SP, "www-data", SEMI>> >>
    /\ workerProcessesDirective = << <<"worker_processes", SP, "4", SEMI>> >>
    /\ eventsBlock[1].directives # <<>>
    /\ SubSeq(splitLines(out[1]), 1, 7) =
           << <<"user", SP, "www-data", SEMI>>, <<>>,
              <<"worker_processes", SP, "4", SEMI>>, <<>>,
              <<"pid", SP, "/run/nginx.pid", SEMI>>, <<>>,
              <<"events", SP, "{">> >>

----------------------------------------------------------------------------
(* C30 *)

\* the directive an option field stands for
fieldDirective(key) ==
    CASE key = "accessLog" -> "access_log"
      [] key = "errorLog" -> "error_log"
      [] key = "clientMaxBodySize" -> "client_max_body_size"
      [] key = "sendTimeout" -> "send_timeout"
      [] key = "keepaliveTimeout" -> "keepalive_timeout"
      [] key = "keepaliveRequests" -> "keepalive_requests"
      [] key = "resetTimedoutConnection" -> "reset_timedout_connection"
      [] key = "serverTokens" -> "server_tokens"
      [] key = "hideNginxVersion" -> "server_tokens"
      [] key = "maxSize" -> "max_size"
      [] key = "inactiveTime" -> "inactive"
      [] OTHER -> key

\* one of the directives holds the word
mentions(directives, word) ==
    \E i \in 1..Len(directives) :
        \E k \in 1..Len(directives[i]) : directives[i][k] = word

\* C30: applyCommonDirectives appends a directive for every field the
\* record sets, and configureCache emits maxSize and inactiveTime whenever
\* the record sets them, with or without a path
C30_EverySetFieldContributes ==
    [][httpBlock # <<>> /\ httpBlock' # <<>>
       => LET new == added(httpBlock[1].directives, httpBlock'[1].directives)
          IN  /\ \A d \in CommonRecords :
                     HttpApplyCommonDirectives(d) =>
                         \A i \in 1..Len(d) :
                             mentions(new, fieldDirective(d[i].key))
              /\ \A o \in CacheRecords :
                     HttpConfigureCache(o) =>
                         \A i \in 1..Len(o) :
                             o[i].key \in {"maxSize", "inactiveTime"}
                                 => mentions(new, fieldDirective(o[i].key))]_vars

====
